---- MODULE Spec2Model ----
(***************************************************************************)
(* Model of the centralized tracker of the P2P chat application            *)
(* (daemon/chatserver.py, class ChatServer).                               *)
(*                                                                         *)
(* The tracker owns two dictionaries, peers (the Registry) and channels    *)
(* (the ChannelIndex), guarded by one threading.Lock.  start() spawns one  *)
(* thread per accepted connection; each thread runs handle_client, which   *)
(* reads one request, dispatches on its method, sends one response and     *)
(* closes the connection.  A step of the model is one step of one such     *)
(* thread.  What a handler does outside the lock is local to its thread    *)
(* and is folded into the step that precedes it; the statements inside a   *)
(* `with self.lock` block are separate steps whenever the block has more   *)
(* than one.  A thread that waits for the lock is a thread whose step is   *)
(* not enabled.                                                            *)
(*                                                                         *)
(* The second half models the peer overlay (peer_client.py, class          *)
(* PeerClient): every peer process has a main thread that runs the console  *)
(* commands, a thread per accepted connection that waits for the handshake  *)
(* and a listener thread per established connection.  A peer-to-peer        *)
(* transport delivers what one send() wrote to one recv(), in order, which  *)
(* is what the wire protocol relies on.  In the overlay's specifications a  *)
(* round trip to the tracker takes effect in one step.                      *)
(***************************************************************************)
EXTENDS Integers, Sequences, FiniteSets, TLC

\* ------------------------------------------------------------------ bounds
NumWorkers == 2      \* connection threads alive at the same time
MaxConn    == 3      \* connections accepted in one behaviour

MaxSock    == 2      \* peer-to-peer transports opened in one behaviour

Workers == 1..NumWorkers

\* ------------------------------------------------------------- value sets
None == "None"       \* Python's None: what dict.get returns for a missing key

PeerIds      == {"a1", "b1"}
ChannelNames == {"general", "random"}
Ips          == {"127.0.0.1"}
\* the (listen port, username) pairs peers register with; the second one
\* sends no username
Clients      == {<<"9001", "Alice">>, <<"9002", None>>}
Times        == {"t1"}         \* values datetime.now().isoformat() takes

\* Python truthiness of a decoded JSON field, as tested by all([...]) / not x
Truthy(v) == v # None /\ v # ""

\* ------------------------------------------------------------ dictionaries
\* self.peers: a dict keyed by peer_id; a function whose DOMAIN is the key set
DictSet(d, k, v) == [x \in (DOMAIN d) \cup {k} |-> IF x = k THEN v ELSE d[x]]

DictDel(d, k) == [x \in (DOMAIN d) \ {k} |-> d[x]]

\* self.channels: a dict in insertion order; a sequence of [name, members]
ChanKeys(ch) == [i \in 1..Len(ch) |-> ch[i].name]

ChanHas(ch, c) == \E i \in 1..Len(ch) : ch[i].name = c

ChanIdx(ch, c) == CHOOSE i \in 1..Len(ch) : ch[i].name = c

\* self.channels[c]; every caller holds the lock and has just seen the key
ChanGet(ch, c) == IF ChanHas(ch, c) THEN ch[ChanIdx(ch, c)].members ELSE <<>>

\* self.channels[c] = m
ChanSet(ch, c, m) ==
    IF ChanHas(ch, c)
    THEN [i \in 1..Len(ch) |-> IF ch[i].name = c THEN [name |-> c, members |-> m] ELSE ch[i]]
    ELSE Append(ch, [name |-> c, members |-> m])

\* del self.channels[c]
ChanDel(ch, c) == SelectSeq(ch, LAMBDA e : e.name # c)

\* x in list
Contains(l, x) == \E i \in 1..Len(l) : l[i] = x

\* mutant: remove empties the list
ListClear(l, x) == <<>>

\* list.remove(x): removes the first occurrence
ListRemove(l, x) ==
    IF ~Contains(l, x) THEN l
    ELSE LET k == CHOOSE i \in 1..Len(l) : l[i] = x /\ \A j \in 1..(i-1) : l[j] # x
         IN  [i \in 1..(Len(l)-1) |-> IF i < k THEN l[i] ELSE l[i+1]]

\* ---------------------------------------------------------------- requests
\* A request is the decoded JSON object, reduced to the keys the handlers
\* read.  None stands for a key that is missing.  raw tells what recv() and
\* json.loads() made of the bytes: "json" (a JSON object), "badjson"
\* (JSONDecodeError), "nondict" (valid JSON that is no object, so .get raises)
\* and "empty" (recv returned no data).
Req(m, pid, ip, port, user, chan, raw) ==
    [method |-> m, peer_id |-> pid, ip |-> ip, port |-> port,
     username |-> user, channel |-> chan, raw |-> raw]

NoReq == Req(None, None, None, None, None, None, "none")

RegisterRequests ==
    { Req("register", pid, ip, c[1], c[2], None, "json") :
        pid \in PeerIds \cup {None}, ip \in Ips \cup {None},
        c \in Clients \cup {<<None, None>>} }

GetPeersRequests ==
    { Req("get_peers", None, None, None, None, c, "json") : c \in ChannelNames \cup {None} }

JoinRequests ==
    { Req("join_channel", pid, None, None, None, c, "json") :
        pid \in PeerIds \cup {None}, c \in ChannelNames \cup {None} }

LeaveRequests ==
    { Req("leave_channel", pid, None, None, None, c, "json") :
        pid \in PeerIds \cup {None}, c \in ChannelNames \cup {None} }

GetChannelsRequests ==
    { Req("get_channels", pid, None, None, None, None, "json") : pid \in PeerIds \cup {None} }

LogoutRequests ==
    { Req("logout", pid, None, None, None, None, "json") : pid \in PeerIds \cup {None} }

UnknownMethods == {"ping", None}

UnknownRequests ==
    { Req(m, None, None, None, None, None, "json") : m \in UnknownMethods }

KnownMethods ==
    {"register", "get_peers", "join_channel", "leave_channel", "get_channels", "logout"}

\* --------------------------------------------------------------- responses
\* A message is the sequence of the pieces an f-string concatenates.
NoResp == [status |-> "none"]

ErrorResponse(msg) == [status |-> "error", message |-> msg]

\* ------------------------------------------------------------------- state
VARIABLES
    peers,        \* self.peers: peer_id -> [ip, port, username, timestamp]
    channels,     \* self.channels: ordered dict channel name -> list of peer_id
    lock,         \* self.lock: 0 when free, else the worker that holds it
    pc,           \* position of each connection thread in handle_client
    req,          \* the request each thread received
    resp,         \* the response each thread built
    keys,         \* logout_peer: the part of list(self.channels.keys()) not yet visited
    conn,         \* each thread's connection: "none", "open" or "closed"
    sent,         \* number of responses written to each thread's connection
    nconn,        \* number of connections accepted so far
    committed,    \* history: peers and channels as the last finished critical section left them
    noJoinSince   \* history: <<p, n>> when the last logout of p removed it from n
                  \* channels and p has not been added to a channel since

\* the peer processes; PeerClient objects are told apart by their peer_id
VARIABLES
    connections,      \* self.connections of each peer: ordered dict peer_id -> socket, username
    joined,           \* self.channels of each peer: the local channel list
    current_channel,  \* self.current_channel of each peer
    running,          \* self.running of each peer
    main,             \* the main thread of each peer: position and locals
    socks,            \* the peer-to-peer transports opened so far
    display,          \* what each peer has printed for received chat messages
    console           \* what the user of each peer has yet to type at its console

overlay == <<connections, joined, current_channel, running, main, socks, display, console>>

vars == <<peers, channels, lock, pc, req, resp, keys, conn, sent, nconn,
          committed, noJoinSince, overlay>>

\* ------------------------------------------------------- peers: value sets
Nodes == {"a1", "b1", "c1"}

\* the username each PeerClient was constructed with; the third one took the
\* default
Username(n) == CASE n = "a1" -> "Alice" [] n = "b1" -> "Bob" [] OTHER -> "Anonymous"

ListenPort(n) == CASE n = "a1" -> "9001" [] n = "b1" -> "9002" [] OTHER -> "9003"

\* the process that listens on a port
NodeAt(port) == CHOOSE n \in Nodes : ListenPort(n) = port

\* a line the user types at the console: `/join <channel>` or text
Cmd(c, a) == [cmd |-> c, arg |-> a]

\* the peer processes that may end at any moment
Mortal == {"b1"}

\* what goes over a peer-to-peer transport: the decoded JSON object, reduced
\* to the keys the receivers read.  type "badjson" stands for bytes json.loads
\* rejects, "nondict" for JSON that is no object, "ping" for an object of an
\* unknown type.
Msg(t, c, pid, user, content) ==
    [type |-> t, channel |-> c, peer_id |-> pid, username |-> user, content |-> content]

Junk(t) == Msg(t, None, None, None, None)

\* PeerClient.__init__ for every peer, before any thread is started.  The
\* main thread has its position pc, the arguments and the list of the loop it
\* is in (channel, content, todo, log, and used: the size a dictionary had
\* when its iterator was made), and of its Tracker round trip the client
\* socket sock and the returned object result
MainIdle ==
    [pc |-> "idle", channel |-> None, content |-> None, todo |-> <<>>, log |-> <<>>,
     used |-> 0, sock |-> "none", result |-> NoResp]

OverlayInit ==
    /\ connections = [n \in Nodes |-> <<>>]
    /\ joined = [n \in Nodes |-> <<>>]
    /\ current_channel = [n \in Nodes |-> None]
    /\ running = [n \in Nodes |-> TRUE]
    /\ main = [n \in Nodes |-> MainIdle]
    /\ socks = <<>>
    /\ display = [n \in Nodes |-> <<>>]
    /\ console = [n \in Nodes |-> <<>>]

\* ChatServer.__init__
Init ==
    /\ peers = <<>>
    /\ channels = <<>>
    /\ lock = 0
    /\ pc = [w \in Workers |-> "idle"]
    /\ req = [w \in Workers |-> NoReq]
    /\ resp = [w \in Workers |-> NoResp]
    /\ keys = [w \in Workers |-> <<>>]
    /\ conn = [w \in Workers |-> "none"]
    /\ sent = [w \in Workers |-> 0]
    /\ nconn = 0
    /\ committed = [peers |-> <<>>, channels |-> <<>>]
    /\ noJoinSince = {}
    /\ OverlayInit

\* mutant: the with block does not wait for the lock
AcquireUnguarded == TRUE

\* `with self.lock:` blocks until the lock is free
CanAcquire == lock = 0

\* the state a finished critical section leaves behind
Commit(p, ch) == [peers |-> p, channels |-> ch]

\* start(): accept a connection and start a thread that runs handle_client
\* on it; the thread blocks in conn.recv(4096)
Accept(w) ==
    /\ pc[w] = "idle"
    /\ nconn < MaxConn
    /\ pc' = [pc EXCEPT ![w] = "recv"]
    /\ conn' = [conn EXCEPT ![w] = "open"]
    /\ sent' = [sent EXCEPT ![w] = 0]
    /\ nconn' = nconn + 1
    /\ UNCHANGED <<overlay, peers, channels, lock, req, resp, keys, committed, noJoinSince>>

\* handle_client: recv() returns the bytes of request r, which json.loads and
\* the dispatch on request.get('method') hand to a handler
Recv(w, r) == req' = [req EXCEPT ![w] = r]

\* a handler returns response r without having changed the shared state
Reply(w, r) ==
    /\ resp' = [resp EXCEPT ![w] = r]
    /\ pc' = [pc EXCEPT ![w] = "send"]
    /\ UNCHANGED <<overlay, peers, channels, lock, keys, conn, sent, nconn, committed, noJoinSince>>

\* handle_client: `if not data: return`, then the finally clause closes
RecvEmpty(w) ==
    /\ pc[w] = "recv"
    /\ pc' = [pc EXCEPT ![w] = "idle"]
    /\ conn' = [conn EXCEPT ![w] = "closed"]
    /\ UNCHANGED <<overlay, peers, channels, lock, req, resp, keys, sent, nconn,
                   committed, noJoinSince>>

\* mutant: the bytes received are stored as a record before they are decoded
RecvBadJsonAfterWrite(w) ==
    /\ pc[w] = "recv"
    /\ Recv(w, Req(None, None, None, None, None, None, "badjson"))
    /\ peers' = DictSet(peers, "a1", [ip |-> None, port |-> None, username |-> None,
                                        timestamp |-> None])
    /\ resp' = [resp EXCEPT ![w] = ErrorResponse(<<"Invalid JSON">>)]
    /\ pc' = [pc EXCEPT ![w] = "send"]
    /\ UNCHANGED <<overlay, channels, lock, keys, conn, sent, nconn, committed, noJoinSince>>

\* handle_client: json.loads raises JSONDecodeError, also on the part of a
\* request a client sent before it went away
RecvBadJson(w) ==
    /\ pc[w] = "recv"
    /\ Recv(w, Req(None, None, None, None, None, None, "badjson"))
    /\ Reply(w, ErrorResponse(<<"Invalid JSON">>))

\* handle_client: request.get raises on a JSON value that is no object
RecvNonDict(w) ==
    /\ pc[w] = "recv"
    /\ Recv(w, Req(None, None, None, None, None, None, "nondict"))
    /\ Reply(w, ErrorResponse(<<"object has no attribute 'get'">>))

\* mutant: the error message does not name the method
UnknownMethodUnnamed(w) ==
    /\ pc[w] = "recv"
    /\ \E r \in UnknownRequests :
        /\ Recv(w, r)
        /\ Reply(w, ErrorResponse(<<"Unknown method">>))

\* handle_client: the else branch of the dispatch
UnknownMethod(w) ==
    /\ pc[w] = "recv"
    /\ \E r \in UnknownRequests :
        /\ Recv(w, r)
        /\ Reply(w, ErrorResponse(<<"Unknown method: ", r.method>>))

\* mutant: the response is written in the try block and once more in a handler
RespondTwice(w) ==
    /\ pc[w] = "send"
    /\ sent' = [sent EXCEPT ![w] = sent[w] + 2]
    /\ conn' = [conn EXCEPT ![w] = "closed"]
    /\ pc' = [pc EXCEPT ![w] = "idle"]
    /\ req' = [req EXCEPT ![w] = NoReq]
    /\ resp' = [resp EXCEPT ![w] = NoResp]
    /\ UNCHANGED <<overlay, peers, channels, lock, keys, nconn, committed, noJoinSince>>

\* handle_client: conn.send(json.dumps(response)), then the finally clause
\* closes the connection and the thread ends
Respond(w) ==
    /\ pc[w] = "send"
    /\ sent' = [sent EXCEPT ![w] = sent[w] + 1]
    /\ conn' = [conn EXCEPT ![w] = "closed"]
    /\ pc' = [pc EXCEPT ![w] = "idle"]
    /\ req' = [req EXCEPT ![w] = NoReq]
    /\ resp' = [resp EXCEPT ![w] = NoResp]
    /\ UNCHANGED <<overlay, peers, channels, lock, keys, nconn, committed, noJoinSince>>

\* ----------------------------------------------------------- register_peer
\* `if not all([peer_id, peer_ip, peer_port])`
RegisterValid(r) == Truthy(r.peer_id) /\ Truthy(r.ip) /\ Truthy(r.port)

\* request.get('username', 'Anonymous')
UsernameOf(r) == IF r.username = None THEN "Anonymous" ELSE r.username

\* the record register_peer stores
PeerRecord(r, now) ==
    [ip |-> r.ip, port |-> r.port, username |-> UsernameOf(r), timestamp |-> now]

\* mutant: a peer_id that has a record keeps it
UpsertKeepFirst(p, pid, rec) == IF pid \in DOMAIN p THEN p ELSE DictSet(p, pid, rec)

\* mutant: the assignment replaces the whole Registry
UpsertAlone(p, pid, rec) == DictSet(<<>>, pid, rec)

\* self.peers[peer_id] = {...}
Upsert(p, pid, rec) == DictSet(p, pid, rec)

RegisterResponse(r) ==
    [status |-> "success", message |-> <<"Peer registered successfully">>,
     peer_id |-> r.peer_id, username |-> UsernameOf(r)]

RegisterReject(w) ==
    /\ pc[w] = "recv"
    /\ \E r \in RegisterRequests :
        /\ ~RegisterValid(r)
        /\ Recv(w, r)
        /\ Reply(w, ErrorResponse(<<"Missing required fields: peer_id, ip, port">>))

\* the critical section is the single assignment
RegisterWrite(w) ==
    /\ pc[w] = "recv"
    /\ \E r \in RegisterRequests, now \in Times :
        /\ RegisterValid(r)
        /\ Recv(w, r)
        /\ CanAcquire
        /\ peers' = Upsert(peers, r.peer_id, PeerRecord(r, now))
        /\ committed' = Commit(peers', channels)
        /\ resp' = [resp EXCEPT ![w] = RegisterResponse(r)]
        /\ pc' = [pc EXCEPT ![w] = "send"]
        /\ UNCHANGED <<overlay, channels, lock, keys, conn, sent, nconn, noJoinSince>>

\* ----------------------------------------------------------- get_peer_list
\* mutant: every member of the channel is listed, registered or not
PeerListMembers(p, ch, channel) ==
    IF Truthy(channel) /\ ChanHas(ch, channel)
    THEN LET peer_ids == ChanGet(ch, channel)
         IN  [pid \in {peer_ids[i] : i \in 1..Len(peer_ids)}
                 |-> IF pid \in DOMAIN p THEN p[pid]
                     ELSE [ip |-> None, port |-> None, username |-> None, timestamp |-> None]]
    ELSE p

\* mutant: the channel filter is ignored
PeerListAll(p, ch, channel) == p

\* the peer_list the critical section computes
PeerList(p, ch, channel) ==
    IF Truthy(channel) /\ ChanHas(ch, channel)
    THEN LET peer_ids == ChanGet(ch, channel)
         IN  [pid \in {peer_ids[i] : i \in {j \in 1..Len(peer_ids) : peer_ids[j] \in DOMAIN p}}
                 |-> p[pid]]
    ELSE p

GetPeersResponse(peer_list, channel) ==
    [status |-> "success", peers |-> peer_list, channel |-> channel,
     count |-> Cardinality(DOMAIN peer_list)]

\* the critical section only reads
GetPeers(w) ==
    /\ pc[w] = "recv"
    /\ \E r \in GetPeersRequests :
        /\ Recv(w, r)
        /\ CanAcquire
        /\ Reply(w, GetPeersResponse(PeerList(peers, channels, r.channel), r.channel))

\* ------------------------------------------------------------ join_channel
\* mutant: the channel is not validated
MemberValidPeerOnly(r) == Truthy(r.peer_id)

\* `if not all([peer_id, channel])`, shared by join_channel and leave_channel
MemberValid(r) == Truthy(r.peer_id) /\ Truthy(r.channel)

\* mutant: the membership test is missing
AddMemberAlways(members, pid) == Append(members, pid)

\* mutant: the member list is replaced instead of extended
AddMemberOverwrite(members, pid) == <<pid>>

\* `if peer_id not in self.channels[channel]: ....append(peer_id)`
AddMember(members, pid) == IF Contains(members, pid) THEN members ELSE Append(members, pid)

JoinResponse(c) ==
    [status |-> "success", message |-> <<"Joined channel: ", c>>, channel |-> c]

JoinReject(w) ==
    /\ pc[w] = "recv"
    /\ \E r \in JoinRequests :
        /\ ~MemberValid(r)
        /\ Recv(w, r)
        /\ Reply(w, ErrorResponse(<<"Missing required fields: peer_id, channel">>))

\* take the lock; `if channel not in self.channels: self.channels[channel] = []`
JoinCreateReq(w, r) ==
    /\ MemberValid(r)
    /\ Recv(w, r)
    /\ CanAcquire
    /\ lock' = w
    /\ channels' = IF ChanHas(channels, r.channel) THEN channels
                   ELSE ChanSet(channels, r.channel, <<>>)
    /\ pc' = [pc EXCEPT ![w] = "join_add"]
    /\ UNCHANGED <<overlay, peers, resp, keys, conn, sent, nconn, committed, noJoinSince>>

JoinCreate(w) ==
    /\ pc[w] = "recv"
    /\ \E r \in JoinRequests : JoinCreateReq(w, r)

\* mutant: the lock is still held when the handler returns
JoinAppendHoldLock(w) ==
    /\ pc[w] = "join_add"
    /\ channels' = ChanSet(channels, req[w].channel,
                           AddMember(ChanGet(channels, req[w].channel), req[w].peer_id))
    /\ committed' = Commit(peers, channels')
    /\ noJoinSince' = {e \in noJoinSince : e[1] # req[w].peer_id}
    /\ resp' = [resp EXCEPT ![w] = JoinResponse(req[w].channel)]
    /\ pc' = [pc EXCEPT ![w] = "send"]
    /\ UNCHANGED <<overlay, peers, lock, req, keys, conn, sent, nconn>>

\* add the member, leave the with block and build the response
JoinAppend(w) ==
    /\ pc[w] = "join_add"
    /\ channels' = ChanSet(channels, req[w].channel,
                           AddMember(ChanGet(channels, req[w].channel), req[w].peer_id))
    /\ lock' = 0
    /\ committed' = Commit(peers, channels')
    /\ noJoinSince' = {e \in noJoinSince : e[1] # req[w].peer_id}
    /\ resp' = [resp EXCEPT ![w] = JoinResponse(req[w].channel)]
    /\ pc' = [pc EXCEPT ![w] = "send"]
    /\ UNCHANGED <<overlay, peers, req, keys, conn, sent, nconn>>

\* ----------------------------------------------------------- leave_channel
\* mutant: empty channels are kept
DropNever(ch, c) == ch

\* `if not self.channels[channel]: del self.channels[channel]`
DropIfEmpty(ch, c) == IF ChanGet(ch, c) = <<>> THEN ChanDel(ch, c) ELSE ch

LeaveResponse(c) ==
    [status |-> "success", message |-> <<"Left channel: ", c>>, channel |-> c]

\* `channel in self.channels and peer_id in self.channels[channel]`
IsMember(ch, c, pid) == ChanHas(ch, c) /\ Contains(ChanGet(ch, c), pid)

LeaveReject(w) ==
    /\ pc[w] = "recv"
    /\ \E r \in LeaveRequests :
        /\ ~MemberValid(r)
        /\ Recv(w, r)
        /\ Reply(w, ErrorResponse(<<"Missing required fields: peer_id, channel">>))

\* the condition of the critical section is false: nothing to do
LeaveNotMember(w) ==
    /\ pc[w] = "recv"
    /\ \E r \in LeaveRequests :
        /\ MemberValid(r)
        /\ Recv(w, r)
        /\ CanAcquire
        /\ ~IsMember(channels, r.channel, r.peer_id)
        /\ Reply(w, LeaveResponse(r.channel))

\* take the lock; self.channels[channel].remove(peer_id)
LeaveRemove(w) ==
    /\ pc[w] = "recv"
    /\ \E r \in LeaveRequests :
        /\ MemberValid(r)
        /\ Recv(w, r)
        /\ CanAcquire
        /\ IsMember(channels, r.channel, r.peer_id)
        /\ lock' = w
        /\ channels' = ChanSet(channels, r.channel,
                               ListRemove(ChanGet(channels, r.channel), r.peer_id))
        /\ pc' = [pc EXCEPT ![w] = "leave_gc"]
        /\ UNCHANGED <<overlay, peers, resp, keys, conn, sent, nconn, committed, noJoinSince>>

\* remove the channel if it is empty, leave the with block, build the response
LeaveGC(w) ==
    /\ pc[w] = "leave_gc"
    /\ channels' = DropIfEmpty(channels, req[w].channel)
    /\ lock' = 0
    /\ committed' = Commit(peers, channels')
    /\ resp' = [resp EXCEPT ![w] = LeaveResponse(req[w].channel)]
    /\ pc' = [pc EXCEPT ![w] = "send"]
    /\ UNCHANGED <<overlay, peers, req, keys, conn, sent, nconn, noJoinSince>>

\* ------------------------------------------------------------ get_channels
\* `if not peer_id`, shared by get_channels and logout_peer
PeerValid(r) == Truthy(r.peer_id)

\* mutant: the comprehension has no condition
UserChannelsAll(ch, pid) == ChanKeys(ch)

\* [ch for ch, peers in self.channels.items() if peer_id in peers]
UserChannels(ch, pid) == ChanKeys(SelectSeq(ch, LAMBDA e : Contains(e.members, pid)))

GetChannelsResponse(user_channels) ==
    [status |-> "success", channels |-> user_channels, count |-> Len(user_channels)]

GetChannelsReject(w) ==
    /\ pc[w] = "recv"
    /\ \E r \in GetChannelsRequests :
        /\ ~PeerValid(r)
        /\ Recv(w, r)
        /\ Reply(w, ErrorResponse(<<"Missing required field: peer_id">>))

\* the critical section only reads
GetChannels(w) ==
    /\ pc[w] = "recv"
    /\ \E r \in GetChannelsRequests :
        /\ PeerValid(r)
        /\ Recv(w, r)
        /\ CanAcquire
        /\ Reply(w, GetChannelsResponse(UserChannels(channels, r.peer_id)))

\* ------------------------------------------------------------- logout_peer
LogoutResponse == [status |-> "success", message |-> <<"Logged out successfully">>]

\* mutant: the loop removes empty channels but not the peer
LogoutVisitKeepPeer(ch, c, pid) == DropIfEmpty(ch, c)

\* mutant: the loop deletes every channel the peer is in
LogoutVisitDrop(ch, c, pid) == IF Contains(ChanGet(ch, c), pid) THEN ChanDel(ch, c) ELSE ch

\* one round of `for channel in list(self.channels.keys())`
LogoutVisit(ch, c, pid) ==
    DropIfEmpty(ChanSet(ch, c, ListRemove(ChanGet(ch, c), pid)), c)

LogoutReject(w) ==
    /\ pc[w] = "recv"
    /\ \E r \in LogoutRequests :
        /\ ~PeerValid(r)
        /\ Recv(w, r)
        /\ Reply(w, ErrorResponse(<<"Missing required field: peer_id">>))

\* take the lock; `if peer_id in self.peers: del self.peers[peer_id]`;
\* evaluate list(self.channels.keys())
LogoutDelPeerReq(w, r) ==
    /\ PeerValid(r)
    /\ Recv(w, r)
    /\ CanAcquire
    /\ lock' = w
    /\ peers' = DictDel(peers, r.peer_id)
    /\ keys' = [keys EXCEPT ![w] = ChanKeys(channels)]
    /\ pc' = [pc EXCEPT ![w] = "logout_loop"]
    /\ UNCHANGED <<overlay, channels, resp, conn, sent, nconn, committed, noJoinSince>>

LogoutDelPeer(w) ==
    /\ pc[w] = "recv"
    /\ \E r \in LogoutRequests : LogoutDelPeerReq(w, r)

\* the loop body for the next channel
LogoutIter(w) ==
    /\ pc[w] = "logout_loop"
    /\ keys[w] # <<>>
    /\ channels' = LogoutVisit(channels, Head(keys[w]), req[w].peer_id)
    /\ keys' = [keys EXCEPT ![w] = Tail(keys[w])]
    /\ UNCHANGED <<overlay, peers, lock, pc, req, resp, conn, sent, nconn, committed, noJoinSince>>

\* the loop is over: leave the with block and build the response
LogoutReturn(w) ==
    /\ pc[w] = "logout_loop"
    /\ keys[w] = <<>>
    /\ lock' = 0
    /\ committed' = Commit(peers, channels)
    /\ noJoinSince' = {e \in noJoinSince : e[1] # req[w].peer_id}
                        \cup {<<req[w].peer_id, Len(UserChannels(committed.channels, req[w].peer_id))>>}
    /\ resp' = [resp EXCEPT ![w] = LogoutResponse]
    /\ pc' = [pc EXCEPT ![w] = "send"]
    /\ UNCHANGED <<overlay, peers, channels, req, keys, conn, sent, nconn>>

\* ----------------------------------------------------------- specification
Next ==
    \/ \E w \in Workers : Accept(w)
    \/ \E w \in Workers : RecvEmpty(w)
    \/ \E w \in Workers : RecvBadJson(w)
    \/ \E w \in Workers : RecvNonDict(w)
    \/ \E w \in Workers : UnknownMethod(w)
    \/ \E w \in Workers : RegisterReject(w)
    \/ \E w \in Workers : RegisterWrite(w)
    \/ \E w \in Workers : GetPeers(w)
    \/ \E w \in Workers : JoinReject(w)
    \/ \E w \in Workers : JoinCreate(w)
    \/ \E w \in Workers : JoinAppend(w)
    \/ \E w \in Workers : LeaveReject(w)
    \/ \E w \in Workers : LeaveNotMember(w)
    \/ \E w \in Workers : LeaveRemove(w)
    \/ \E w \in Workers : LeaveGC(w)
    \/ \E w \in Workers : GetChannelsReject(w)
    \/ \E w \in Workers : GetChannels(w)
    \/ \E w \in Workers : LogoutReject(w)
    \/ \E w \in Workers : LogoutDelPeer(w)
    \/ \E w \in Workers : LogoutIter(w)
    \/ \E w \in Workers : LogoutReturn(w)
    \/ \E w \in Workers : Respond(w)

Spec == Init /\ [][Next]_vars

\* ------------------------------------- scenario: connections that fail
\* handle_client: conn.send raises because the client has gone.  In the try
\* block the exception reaches `except Exception`, whose own conn.send raises
\* again; in a handler it is raised at once.  The finally clause closes the
\* connection and the exception ends the thread, nothing having been written
RespondFail(w) ==
    /\ pc[w] = "send"
    /\ conn' = [conn EXCEPT ![w] = "closed"]
    /\ pc' = [pc EXCEPT ![w] = "idle"]
    /\ req' = [req EXCEPT ![w] = NoReq]
    /\ resp' = [resp EXCEPT ![w] = NoResp]
    /\ UNCHANGED <<overlay, peers, channels, lock, keys, sent, nconn, committed, noJoinSince>>

\* The clients register, join and ask for peers; any of them may send
\* nothing, send half a request or a JSON value that is no object, or be gone
\* when the response is written.
NextFail ==
    \/ \E w \in Workers : Accept(w)
    \/ \E w \in Workers : RecvEmpty(w)
    \/ \E w \in Workers : RecvBadJson(w)
    \/ \E w \in Workers : RecvNonDict(w)
    \/ \E w \in Workers : RegisterReject(w)
    \/ \E w \in Workers : RegisterWrite(w)
    \/ \E w \in Workers : GetPeers(w)
    \/ \E w \in Workers : JoinCreate(w)
    \/ \E w \in Workers : JoinAppend(w)
    \/ \E w \in Workers : Respond(w)
    \/ \E w \in Workers : RespondFail(w)

SpecFail == Init /\ [][NextFail]_vars

\* ------------------------------------------------- scenario: N joins at once
\* Every thread serves one join_channel request for a peer_id of its own,
\* all into the same channel; the peers may or may not be registered.
JoinerIds == <<"a1", "b1", "c1", "d1">>

Joiner(w) == JoinerIds[w]

JoinChannel == "general"

JoinRegistries ==
    { [pid \in S |-> PeerRecord(Req("register", pid, "127.0.0.1", "9001", None, None, "json"), "t1")] :
        S \in SUBSET {Joiner(w) : w \in Workers} }

InitJoin ==
    /\ peers \in JoinRegistries
    /\ channels = <<>>
    /\ lock = 0
    /\ pc = [w \in Workers |-> "idle"]
    /\ req = [w \in Workers |-> NoReq]
    /\ resp = [w \in Workers |-> NoResp]
    /\ keys = [w \in Workers |-> <<>>]
    /\ conn = [w \in Workers |-> "none"]
    /\ sent = [w \in Workers |-> 0]
    /\ nconn = 0
    /\ committed = Commit(peers, channels)
    /\ noJoinSince = {}
    /\ OverlayInit

AcceptJoiner(w) == conn[w] = "none" /\ Accept(w)

JoinerCreate(w) ==
    /\ pc[w] = "recv"
    /\ JoinCreateReq(w, Req("join_channel", Joiner(w), None, None, None, JoinChannel, "json"))

NextJoin ==
    \/ \E w \in Workers : AcceptJoiner(w)
    \/ \E w \in Workers : JoinerCreate(w)
    \/ \E w \in Workers : JoinAppend(w)
    \/ \E w \in Workers : Respond(w)

SpecJoin == InitJoin /\ [][NextJoin]_vars

\* ------------------------------------------- scenario: clients that stall
\* Every thread serves join_channel and logout requests of a peer_id of its
\* own.  The client of thread Served sends its request and reads its
\* response; the clients of the other threads may stay silent after connecting
\* or never read, for ever.  A thread that is inside a `with self.lock` block
\* is runnable and the scheduler lets it run.
Served == 1

JoinerLogout(w) ==
    /\ pc[w] = "recv"
    /\ LogoutDelPeerReq(w, Req("logout", Joiner(w), None, None, None, None, "json"))

NextStall ==
    \/ \E w \in Workers : Accept(w)
    \/ \E w \in Workers : JoinerCreate(w)
    \/ \E w \in Workers : JoinAppend(w)
    \/ \E w \in Workers : JoinerLogout(w)
    \/ \E w \in Workers : LogoutIter(w)
    \/ \E w \in Workers : LogoutReturn(w)
    \/ \E w \in Workers : Respond(w)

SpecStall ==
    /\ InitJoin /\ [][NextStall]_vars
    /\ \A w \in Workers : WF_vars(JoinAppend(w) \/ LogoutIter(w) \/ LogoutReturn(w))
    /\ WF_vars(JoinerCreate(Served) \/ JoinerLogout(Served))
    /\ WF_vars(Respond(Served))

\* ============================================================ peer overlay
\* self.connections: a dict in insertion order; a sequence of
\* [peer_id, socket, username], socket being an index into socks
ConnKeys(d) == {d[i].peer_id : i \in 1..Len(d)}

ConnHas(d, k) == \E i \in 1..Len(d) : d[i].peer_id = k

\* self.connections[k] = {'socket': sock, 'username': username}
ConnSet(d, k, sock, user) ==
    LET e == [peer_id |-> k, socket |-> sock, username |-> user]
    IN  IF ConnHas(d, k)
        THEN [i \in 1..Len(d) |-> IF d[i].peer_id = k THEN e ELSE d[i]]
        ELSE Append(d, e)

\* del self.connections[k]
ConnDel(d, k) == SelectSeq(d, LAMBDA e : e.peer_id # k)

\* the tracker variables no peer action touches
workers == <<lock, pc, req, resp, keys, conn, sent, nconn, noJoinSince>>

\* the process of peer n has not exited
Alive(n) == main[n].pc # "dead"

\* the Registry after main() of every peer has called register()
NodeRecord(n) ==
    PeerRecord(Req("register", n, "127.0.0.1", ListenPort(n), Username(n), None, "json"), "t1")

\* the console loop of main() reads the next command
NextCmd(n) == Head(console[n])

Reads(n, c) ==
    /\ main[n].pc = "idle"
    /\ console[n] # <<>>
    /\ NextCmd(n).cmd = c
    /\ console' = [console EXCEPT ![n] = Tail(console[n])]

\* ---------------------------------------------------------- join_channel
\* mutant: the Tracker answers success and records nothing
TrackerJoinForgets(ch, pid, c) == ch

\* what ChatServer.join_channel does to the ChannelIndex
TrackerJoin(ch, pid, c) == ChanSet(ch, c, AddMember(ChanGet(ch, c), pid))

\* mutant: the channel is appended without the test
LocalJoinAlways(l, c) == Append(l, c)

\* `if channel_name not in self.channels: self.channels.append(channel_name)`
LocalJoin(l, c) == IF Contains(l, c) THEN l ELSE Append(l, c)

\* the object the except clause of send_to_tracker returns; the message
\* names what raised
TripError(what) == [status |-> "error", message |-> what]

\* the responses to join_channel
JoinSuccess == [status |-> "success", message |-> "Joined channel"]

JoinErrors == {TripError("connect"), [status |-> "error", message |-> "Missing required fields"]}

\* mutant: join_channel does not look at the status of the response
SucceededAlways(response) == TRUE

\* `if response.get('status') == 'success':`
Succeeded(response) == response.status = "success"

\* self.channels, self.current_channel and the position of the main thread
\* after join_channel(c) has got the response: connect_to_channel_peers is
\* called in the success branch only
JoinedAfter(l, c, response) == IF Succeeded(response) THEN LocalJoin(l, c) ELSE l

CurrentAfter(cur, c, response) == IF Succeeded(response) THEN c ELSE cur

MainAfter(c, response) ==
    IF Succeeded(response)
    THEN [MainIdle EXCEPT !.pc = "query", !.channel = c, !.result = response]
    ELSE [MainIdle EXCEPT !.result = response]

\* join_channel(c): the Tracker answers success; the local channel list and
\* current_channel are set and connect_to_channel_peers is entered
JoinOk(n) ==
    /\ Reads(n, "join")
    /\ LET c == NextCmd(n).arg IN
        /\ channels' = TrackerJoin(channels, n, c)
        /\ committed' = Commit(peers, channels')
        /\ joined' = [joined EXCEPT ![n] = JoinedAfter(@, c, JoinSuccess)]
        /\ current_channel' = [current_channel EXCEPT ![n] = CurrentAfter(@, c, JoinSuccess)]
        /\ main' = [main EXCEPT ![n] = MainAfter(c, JoinSuccess)]
    /\ UNCHANGED <<peers, workers, connections, running, socks, display>>

\* join_channel(c): the Tracker is not reached, or it answers with an error;
\* join_channel prints and returns the response
JoinFail(n) ==
    /\ Reads(n, "join")
    /\ \E response \in JoinErrors :
        LET c == NextCmd(n).arg IN
        /\ joined' = [joined EXCEPT ![n] = JoinedAfter(@, c, response)]
        /\ current_channel' = [current_channel EXCEPT ![n] = CurrentAfter(@, c, response)]
        /\ main' = [main EXCEPT ![n] = MainAfter(c, response)]
    /\ UNCHANGED <<peers, channels, committed, workers, connections, running, socks,
                   display>>

\* the keys of the peers object of a get_peers response, in the order the
\* Tracker built it: the member list's order for a channel of the
\* ChannelIndex, the Registry's order otherwise
ResponseOrder(p, ch, channel) ==
    LET pl == PeerList(p, ch, channel)
    IN  IF Truthy(channel) /\ ChanHas(ch, channel)
        THEN SelectSeq(ChanGet(ch, channel), LAMBDA pid : pid \in DOMAIN pl)
        ELSE CHOOSE q \in [1..Cardinality(DOMAIN pl) -> DOMAIN pl] :
                 {q[i] : i \in DOMAIN q} = DOMAIN pl

\* peers.items() of the response
ResponseItems(p, ch, channel) ==
    LET order == ResponseOrder(p, ch, channel)
    IN  [i \in 1..Len(order) |->
            [peer_id |-> order[i], ip |-> p[order[i]].ip, port |-> p[order[i]].port,
             username |-> p[order[i]].username]]

\* connect_to_channel_peers: the get_peers round trip succeeds
DiscoverQuery(n) ==
    /\ main[n].pc = "query"
    /\ main' = [main EXCEPT ![n].pc = "discover",
                            ![n].todo = ResponseItems(peers, channels, main[n].channel)]
    /\ UNCHANGED <<peers, channels, committed, workers, connections, joined,
                   current_channel, running, socks, display, console>>

\* connect_to_channel_peers: the get_peers round trip fails; join_channel
\* returns
DiscoverQueryFail(n) ==
    /\ main[n].pc = "query"
    /\ main' = [main EXCEPT ![n] = MainIdle]
    /\ UNCHANGED <<peers, channels, committed, workers, connections, joined,
                   current_channel, running, socks, display, console>>

\* --------------------------------------------------------- connect_to_peer
\* mutant: the connector sends nothing after connect
TransportMute(n, t, first) ==
    [from |-> n, to |-> t, a |-> "listen", b |-> "pending", toB |-> <<>>, toA |-> <<>>]

\* a transport from peer n to the process listening at the address of a
\* Registry record; the accepting side has started handle_incoming_connection
Transport(n, t, first) ==
    [from |-> n, to |-> t, a |-> "listen", b |-> "pending", toB |-> first, toA |-> <<>>]

Handshake(n) == Msg("handshake", None, n, Username(n), None)

\* the step of the discovery loop for the next returned peer_id
Visit(n, e, outcome) ==
    main' = [main EXCEPT ![n].todo = Tail(main[n].todo),
                         ![n].log = Append(main[n].log, <<e.peer_id, outcome>>)]

\* mutant: peers that are in the Connection Table are connected to again
ToConnectAgain(n, pid) == pid # n

\* `if peer_id != self.peer_id and peer_id not in self.connections`
ToConnect(n, pid) == pid # n /\ ~ConnHas(connections[n], pid)

\* the loop skips the peer itself and the peers it is connected to
DiscoverSkip(n) ==
    /\ main[n].pc = "discover" /\ main[n].todo # <<>>
    /\ LET e == Head(main[n].todo) IN
        /\ ~ToConnect(n, e.peer_id)
        /\ Visit(n, e, "skipped")
    /\ UNCHANGED <<peers, channels, committed, workers, connections, joined,
                   current_channel, running, socks, display, console>>

\* mutant: the entry is added before the handshake is sent
ConnectEntryFirst(d, k, sock, user, ok) == ConnSet(d, k, sock, user)

\* connect_to_peer adds the entry after connect() and send() have returned
ConnectEntry(d, k, sock, user, ok) == IF ok THEN ConnSet(d, k, sock, user) ELSE d

\* connect_to_peer succeeds: connect, send the handshake, add the entry and
\* start listen_to_peer on the socket
ConnectOk(n) ==
    /\ main[n].pc = "discover" /\ main[n].todo # <<>>
    /\ Len(socks) < MaxSock
    /\ LET e == Head(main[n].todo) IN
        /\ ToConnect(n, e.peer_id)
        /\ Alive(NodeAt(e.port))
        /\ socks' = Append(socks, Transport(n, NodeAt(e.port), <<Handshake(n)>>))
        /\ connections' = [connections EXCEPT
                              ![n] = ConnectEntry(@, e.peer_id, Len(socks) + 1, e.username, TRUE)]
        /\ Visit(n, e, "connected")
    /\ UNCHANGED <<peers, channels, committed, workers, joined,
                   current_channel, running, display, console>>

\* connect_to_peer fails in connect() or in send(): the exception is caught
\* and printed, the socket is dropped.  What the other side sees of a
\* connection that was accepted before send() failed is a connection that
\* closes without a payload, as in Stranger below
ConnectRefused(n) ==
    /\ main[n].pc = "discover" /\ main[n].todo # <<>>
    /\ LET e == Head(main[n].todo) IN
        /\ ToConnect(n, e.peer_id)
        /\ connections' = [connections EXCEPT
                              ![n] = ConnectEntry(@, e.peer_id, 0, e.username, FALSE)]
        /\ Visit(n, e, "failed")
    /\ UNCHANGED <<peers, channels, committed, workers, joined,
                   current_channel, running, socks, display, console>>

\* the loop is over: connect_to_channel_peers and join_channel return
DiscoverDone(n) ==
    /\ main[n].pc = "discover" /\ main[n].todo = <<>>
    /\ main' = [main EXCEPT ![n] = MainIdle]
    /\ UNCHANGED <<peers, channels, committed, workers, connections, joined,
                   current_channel, running, socks, display, console>>

\* ----------------------------------------------- handle_incoming_connection
Socks == 1..Len(socks)

\* a transport has the side "a" of the peer that connected and the side "b"
\* of the peer that accepted
Sides == {"a", "b"}

Owner(sk, side) == IF side = "a" THEN sk.from ELSE sk.to

\* the peer_id listen_to_peer was started with: the discovered peer_id on the
\* connecting side, the handshake's peer_id on the accepting side
Key(sk, side) == IF side = "a" THEN sk.to ELSE sk.from

Inbox(sk, side) == IF side = "a" THEN sk.toA ELSE sk.toB

Mine(sk, side) == IF side = "a" THEN sk.a ELSE sk.b

Theirs(sk, side) == IF side = "a" THEN sk.b ELSE sk.a

\* the socket after its inbox lost its head / after this side closed it
Popped(sk, side) == IF side = "a" THEN [sk EXCEPT !.toA = Tail(@)] ELSE [sk EXCEPT !.toB = Tail(@)]

\* a transport both sides have closed: nothing of it is left
Gone == [from |-> "-", to |-> "-", a |-> "closed", b |-> "closed", toB |-> <<>>, toA |-> <<>>]

\* sock.close() on the given side; what was not read is discarded
Closed(sk, side) ==
    IF sk.from = "ext" THEN [Gone EXCEPT !.from = "ext"]
    ELSE IF Theirs(sk, side) = "closed" THEN Gone
    ELSE IF side = "a" THEN [sk EXCEPT !.a = "closed", !.toA = <<>>]
         ELSE [sk EXCEPT !.b = "closed", !.toB = <<>>]

\* the position of a listener of peer n at `while self.running`: in recv if
\* the flag is set, on its way to the finally clause if not
Looping(n) == IF running[n] THEN "listen" ELSE "leaving"

\* the listener of this side is blocked in recv: on its open socket, or on a
\* socket stop() has closed under it
InRecv(sk, side) == Mine(sk, side) \in {"listen", "shut"}

\* the given side with its listener at position p
Moved(sk, side, p) == IF side = "a" THEN [sk EXCEPT !.a = p] ELSE [sk EXCEPT !.b = p]

\* the accepted connection's first payload is a handshake: add the entry
\* under the handshake's peer_id and start listen_to_peer on the connection
HandshakeAccept(s) ==
    /\ s \in Socks /\ socks[s].b = "pending" /\ Alive(socks[s].to)
    /\ socks[s].toB # <<>>
    /\ LET hs == Head(socks[s].toB) IN
        /\ hs.type = "handshake"
        /\ connections' = [connections EXCEPT ![socks[s].to] =
               ConnSet(@, hs.peer_id, s, IF hs.username = None THEN "Unknown" ELSE hs.username)]
        /\ socks' = [socks EXCEPT ![s].b = Looping(socks[s].to), ![s].toB = Tail(@)]
    /\ UNCHANGED <<peers, channels, committed, workers, joined, current_channel,
                   running, main, display, console>>

\* mutant: a connection whose first payload cannot be used is left open
RejectedEndOpen(t) == "orphan"

\* the state of an accepted connection whose first payload had type t and
\* was no handshake: json.loads or .get raised and the except clause closed
\* it, or the payload was an object of another type and the thread returned
RejectedEnd(t) == IF t \in {"badjson", "nondict", "empty"} THEN "closed" ELSE "orphan"

\* the first payload is no handshake
HandshakeReject(s) ==
    /\ s \in Socks /\ socks[s].b = "pending" /\ Alive(socks[s].to)
    /\ \/ /\ socks[s].toB # <<>>
          /\ Head(socks[s].toB).type # "handshake"
          /\ socks' = [socks EXCEPT ![s] =
                IF RejectedEnd(Head(socks[s].toB).type) = "closed"
                THEN Closed(socks[s], "b")
                ELSE [socks[s] EXCEPT !.b = "orphan", !.toB = Tail(@)]]
       \/ /\ socks[s].toB = <<>> /\ socks[s].a = "closed"
          /\ socks' = [socks EXCEPT ![s] =
                IF RejectedEnd("empty") = "closed"
                THEN Closed(socks[s], "b")
                ELSE [socks[s] EXCEPT !.b = "orphan"]]
    /\ UNCHANGED <<peers, channels, committed, workers, connections, joined,
                   current_channel, running, main, display, console>>

\* ----------------------------------------------------------- listen_to_peer
\* handle_incoming_message prints every message of type chat
Shown(n, m) == m.type = "chat"

\* the line handle_incoming_message prints, and whether the prompt follows
Line(n, key, m) ==
    [line |-> <<"[", IF m.username = None THEN key ELSE m.username, " @",
                IF m.channel = None THEN "unknown" ELSE m.channel, "]> ",
                IF m.content = None THEN "" ELSE m.content>>,
     prompt |-> current_channel[n] = m.channel]

\* one round of the loop: recv returns a payload, which is decoded and
\* handed to handle_incoming_message; undecodable payloads are skipped; then
\* `while self.running` is tested
ListenRecv(s, side) ==
    /\ s \in Socks /\ InRecv(socks[s], side)
    /\ Inbox(socks[s], side) # <<>>
    /\ LET sk == socks[s]
           n == Owner(sk, side)
           m == Head(Inbox(sk, side)) IN
        /\ m.type # "nondict"
        /\ socks' = [socks EXCEPT ![s] = Moved(Popped(sk, side), side,
                                               IF running[n] THEN Mine(sk, side) ELSE "leaving")]
        /\ display' = [display EXCEPT ![n] =
               IF Shown(n, m) THEN Append(@, Line(n, Key(sk, side), m)) ELSE @]
    /\ UNCHANGED <<peers, channels, committed, workers, connections, joined,
                   current_channel, running, main, console>>

\* mutant: the listener leaves the entry in the table
ExitDelKeep(d, k) == d

\* `if peer_id in self.connections: del self.connections[peer_id]`
ExitDel(d, k) == IF ConnHas(d, k) THEN ConnDel(d, k) ELSE d

\* the loop ends: recv returned no data or raised because the other side
\* has closed, or the payload was JSON without .get, or self.running was
\* found false; the finally clause removes the entry of the listener's
\* peer_id and closes the socket
ListenExit(s, side) ==
    /\ s \in Socks /\ Mine(socks[s], side) \in {"listen", "shut", "leaving"}
    /\ LET sk == socks[s]
           n == Owner(sk, side) IN
        /\ \/ Mine(sk, side) = "leaving"
           \/ InRecv(sk, side) /\ Inbox(sk, side) = <<>> /\ Theirs(sk, side) = "closed"
           \/ InRecv(sk, side) /\ Inbox(sk, side) # <<>>
                /\ Head(Inbox(sk, side)).type = "nondict"
        /\ connections' = [connections EXCEPT ![n] = ExitDel(@, Key(sk, side))]
        /\ socks' = [socks EXCEPT ![s] = Closed(sk, side)]
    /\ UNCHANGED <<peers, channels, committed, workers, joined, current_channel,
                   running, main, display, console>>

\* recv raises because stop() has closed the socket under it.  Whether
\* close() in one thread ends a recv in progress in another depends on the
\* platform: where it does not, the listener stays in recv until the other
\* side sends or closes
ListenWake(s, side) ==
    /\ s \in Socks /\ Mine(socks[s], side) = "shut"
    /\ LET sk == socks[s]
           n == Owner(sk, side) IN
        /\ connections' = [connections EXCEPT ![n] = ExitDel(@, Key(sk, side))]
        /\ socks' = [socks EXCEPT ![s] = Closed(sk, side)]
    /\ UNCHANGED <<peers, channels, committed, workers, joined, current_channel,
                   running, main, display, console>>

\* ------------------------------------------------------------- send_message
\* mutant: the message carries no channel
ChatUntagged(n, c, content) == Msg("chat", None, n, Username(n), content)

\* the chat message send_message builds
Chat(n, c, content) == Msg("chat", c, n, Username(n), content)

\* the side of transport sk that peer n holds
SideOf(sk, n) == IF sk.from = n THEN "a" ELSE "b"

\* mutant: what is written overtakes what has not been read
WrittenFront(sk, side, m) ==
    IF Theirs(sk, side) = "closed" THEN sk
    ELSE IF side = "a" THEN [sk EXCEPT !.toB = <<m>> \o @]
         ELSE [sk EXCEPT !.toA = <<m>> \o @]

\* the socket after message m was written on the given side
Written(sk, side, m) ==
    IF Theirs(sk, side) = "closed" THEN sk
    ELSE IF side = "a" THEN [sk EXCEPT !.toB = Append(@, m)]
         ELSE [sk EXCEPT !.toA = Append(@, m)]

\* the console loop calls send_message(current_channel, text): build the
\* message and evaluate list(self.connections.items())
SendStart(n) ==
    /\ Reads(n, "say")
    /\ current_channel[n] # None
    /\ main' = [main EXCEPT ![n] = [MainIdle EXCEPT !.pc = "sending",
                                                     !.channel = current_channel[n],
                                                     !.content = NextCmd(n).arg,
                                                     !.todo = connections[n]]]
    /\ UNCHANGED <<peers, channels, committed, workers, connections, joined,
                   current_channel, running, socks, display>>

\* the console loop drops a line of text while current_channel is None
SendNowhere(n) ==
    /\ Reads(n, "say")
    /\ current_channel[n] = None
    /\ UNCHANGED <<peers, channels, committed, workers, connections, joined,
                   current_channel, running, main, socks, display>>

\* pdata['socket'].send(message_json) returns
SendWrite(n) ==
    /\ main[n].pc = "sending" /\ main[n].todo # <<>>
    /\ LET e == Head(main[n].todo)
           sk == socks[e.socket]
           side == SideOf(sk, n) IN
        /\ Mine(sk, side) \notin {"closed", "shut"}
        /\ socks' = [socks EXCEPT ![e.socket] =
                        Written(sk, side, Chat(n, main[n].channel, main[n].content))]
        /\ Visit(n, e, "written")
    /\ UNCHANGED <<peers, channels, committed, workers, connections, joined,
                   current_channel, running, display, console>>

\* send raises, the socket being closed on this side or by the other side,
\* and the entry is still in the table: `del self.connections[peer_id]`
SendFail(n) ==
    /\ main[n].pc = "sending" /\ main[n].todo # <<>>
    /\ LET e == Head(main[n].todo)
           sk == socks[e.socket]
           side == SideOf(sk, n) IN
        /\ Mine(sk, side) \in {"closed", "shut"} \/ Theirs(sk, side) = "closed"
        /\ ConnHas(connections[n], e.peer_id)
        /\ connections' = [connections EXCEPT ![n] = ConnDel(@, e.peer_id)]
        /\ Visit(n, e, "failed")
    /\ UNCHANGED <<peers, channels, committed, workers, joined,
                   current_channel, running, socks, display, console>>

\* send raises and a listener has removed the entry since the list was
\* taken: the del in the except clause raises KeyError, which leaves
\* send_message with the rest of the list unvisited
SendKeyError(n) ==
    /\ main[n].pc = "sending" /\ main[n].todo # <<>>
    /\ LET e == Head(main[n].todo)
           sk == socks[e.socket]
           side == SideOf(sk, n) IN
        /\ Mine(sk, side) \in {"closed", "shut"} \/ Theirs(sk, side) = "closed"
        /\ ~ConnHas(connections[n], e.peer_id)
        /\ main' = [main EXCEPT ![n].pc = "crashed"]
    /\ UNCHANGED <<peers, channels, committed, workers, connections, joined,
                   current_channel, running, socks, display, console>>

\* the loop is over: send_message returns
SendDone(n) ==
    /\ main[n].pc = "sending" /\ main[n].todo = <<>>
    /\ main' = [main EXCEPT ![n] = MainIdle]
    /\ UNCHANGED <<peers, channels, committed, workers, connections, joined,
                   current_channel, running, socks, display, console>>

\* --------------------------------------------------------------------- stop
\* what ChatServer.logout_peer makes of the ChannelIndex: its loop over the
\* channel names ks
RECURSIVE LogoutAll(_, _, _)
LogoutAll(ch, ks, pid) ==
    IF ks = <<>> THEN ch ELSE LogoutAll(LogoutVisit(ch, Head(ks), pid), Tail(ks), pid)

\* the console loop reads /quit and calls stop(): `self.running = False`
StopStart(n) ==
    /\ Reads(n, "quit")
    /\ running' = [running EXCEPT ![n] = FALSE]
    /\ main' = [main EXCEPT ![n] = [MainIdle EXCEPT !.pc = "logout"]]
    /\ UNCHANGED <<peers, channels, committed, workers, connections, joined,
                   current_channel, socks, display>>

\* the keys values() has handed to the loop of stop()
Handed(n) == {main[n].log[i][1] : i \in 1..Len(main[n].log)}

\* the entries of the Connection Table the iterator has not passed
NotHanded(n) == SelectSeq(connections[n], LAMBDA e : e.peer_id \notin Handed(n))

\* self.logout(): the round trip to the Tracker succeeds or returns an error
\* object, which logout ignores; then stop() makes the iterator of
\* self.connections.values()
StopLogout(n) ==
    /\ main[n].pc = "logout"
    /\ \/ /\ peers' = DictDel(peers, n)
          /\ channels' = LogoutAll(channels, ChanKeys(channels), n)
          /\ committed' = Commit(peers', channels')
       \/ UNCHANGED <<peers, channels, committed>>
    /\ main' = [main EXCEPT ![n].pc = "closing", ![n].used = Len(connections[n])]
    /\ UNCHANGED <<workers, connections, joined, current_channel, running, socks,
                   display, console>>

\* pdata['socket'].close() in the main thread: a listener that is in recv on
\* the socket is not told
Shut(sk, side) == IF Mine(sk, side) = "listen" THEN Moved(sk, side, "shut") ELSE sk

\* one round of the loop of stop(): the dictionary has the size it had when
\* the iterator was made, and the next value is closed
StopClose(n) ==
    /\ main[n].pc = "closing"
    /\ Len(connections[n]) = main[n].used
    /\ NotHanded(n) # <<>>
    /\ LET e == Head(NotHanded(n)) IN
        /\ socks' = [socks EXCEPT ![e.socket] = Shut(@, SideOf(@, n))]
        /\ main' = [main EXCEPT ![n].log = Append(@, <<e.peer_id, "closed">>)]
    /\ UNCHANGED <<peers, channels, committed, workers, connections, joined,
                   current_channel, running, display, console>>

\* the iterator finds that the dictionary has changed size since it was
\* made (a listener has removed its entry, or a handshake has added one):
\* RuntimeError leaves the loop and stop()
StopRaise(n) ==
    /\ main[n].pc = "closing"
    /\ Len(connections[n]) # main[n].used
    /\ main' = [main EXCEPT ![n].pc = "crashed"]
    /\ UNCHANGED <<peers, channels, committed, workers, connections, joined,
                   current_channel, running, socks, display, console>>

\* the iterator is exhausted: stop() returns
StopDone(n) ==
    /\ main[n].pc = "closing"
    /\ Len(connections[n]) = main[n].used
    /\ NotHanded(n) = <<>>
    /\ main' = [main EXCEPT ![n].pc = "stopped"]
    /\ UNCHANGED <<peers, channels, committed, workers, connections, joined,
                   current_channel, running, socks, display, console>>

\* ------------------------------------------------------------ environment
\* the process of peer n ends without logout (it is killed, or an exception
\* left main): the system closes its sockets, the Tracker keeps its record
Exit(n) ==
    /\ Alive(n)
    /\ n \in Mortal
    /\ main' = [main EXCEPT ![n] = [MainIdle EXCEPT !.pc = "dead"]]
    /\ connections' = [connections EXCEPT ![n] = <<>>]
    /\ joined' = [joined EXCEPT ![n] = <<>>]
    /\ current_channel' = [current_channel EXCEPT ![n] = None]
    /\ socks' = [s \in Socks |->
                    IF socks[s].from = n THEN Closed(socks[s], "a")
                    ELSE IF socks[s].to = n THEN Closed(socks[s], "b")
                    ELSE socks[s]]
    /\ UNCHANGED <<peers, channels, committed, workers, running, display, console>>

\* what a client that is no PeerClient sends first after connecting to a
\* peer's listen port; <<>> when it closes without sending
StrangerPayloads == {<<>>, <<Junk("badjson")>>, <<Junk("ping")>>}

\* one such client connects in a behaviour
Stranger(n) ==
    /\ Alive(n)
    /\ Len(socks) < MaxSock
    /\ \A s \in Socks : socks[s].from # "ext"
    /\ \E first \in StrangerPayloads :
        socks' = Append(socks, [from |-> "ext", to |-> n,
                                a |-> IF first = <<>> THEN "closed" ELSE "open",
                                b |-> "pending", toB |-> first, toA |-> <<>>])
    /\ UNCHANGED <<peers, channels, committed, workers, connections, joined,
                   current_channel, running, main, display, console>>

\* ------------------------------------------------- overlay specification
\* what the users type: two peers join the same two channels and talk
PairConsole ==
    [n \in Nodes |->
        CASE n = "a1" -> <<Cmd("join", "general"), Cmd("join", "random"), Cmd("say", "hi")>>
          [] n = "b1" -> <<Cmd("join", "general"), Cmd("join", "random")>>
          [] OTHER    -> <<>>]

Consoles == {PairConsole}

\* every peer has registered (main() calls register() first) and its
\* acceptor thread is in accept()
InitOverlay ==
    /\ peers = [n \in Nodes |-> NodeRecord(n)]
    /\ channels = <<>>
    /\ lock = 0
    /\ pc = [w \in Workers |-> "idle"]
    /\ req = [w \in Workers |-> NoReq]
    /\ resp = [w \in Workers |-> NoResp]
    /\ keys = [w \in Workers |-> <<>>]
    /\ conn = [w \in Workers |-> "none"]
    /\ sent = [w \in Workers |-> 0]
    /\ nconn = 0
    /\ committed = Commit(peers, channels)
    /\ noJoinSince = {}
    /\ connections = [n \in Nodes |-> <<>>]
    /\ joined = [n \in Nodes |-> <<>>]
    /\ current_channel = [n \in Nodes |-> None]
    /\ running = [n \in Nodes |-> TRUE]
    /\ main = [n \in Nodes |-> MainIdle]
    /\ socks = <<>>
    /\ display = [n \in Nodes |-> <<>>]
    /\ console \in Consoles

NextOverlay ==
    \/ \E n \in Nodes : JoinOk(n)
    \/ \E n \in Nodes : JoinFail(n)
    \/ \E n \in Nodes : DiscoverQuery(n)
    \/ \E n \in Nodes : DiscoverQueryFail(n)
    \/ \E n \in Nodes : DiscoverSkip(n)
    \/ \E n \in Nodes : ConnectOk(n)
    \/ \E n \in Nodes : ConnectRefused(n)
    \/ \E n \in Nodes : DiscoverDone(n)
    \/ \E s \in 1..MaxSock : HandshakeAccept(s)
    \/ \E s \in 1..MaxSock : HandshakeReject(s)
    \/ \E s \in 1..MaxSock, side \in Sides : ListenRecv(s, side)
    \/ \E s \in 1..MaxSock, side \in Sides : ListenExit(s, side)
    \/ \E n \in Nodes : SendStart(n)
    \/ \E n \in Nodes : SendNowhere(n)
    \/ \E n \in Nodes : SendWrite(n)
    \/ \E n \in Nodes : SendFail(n)
    \/ \E n \in Nodes : SendKeyError(n)
    \/ \E n \in Nodes : SendDone(n)
    \/ \E n \in Nodes : Exit(n)
    \/ \E n \in Nodes : Stranger(n)

SpecOverlay == InitOverlay /\ [][NextOverlay]_vars

\* ------------------------------- scenario: two peers meet, no failures
\* Both users join the same channel and the first one talks; the Tracker
\* answers and no transport fails.  Every thread that can run is scheduled;
\* the users type when they like.
ChatConsole ==
    [n \in Nodes |->
        CASE n = "a1" -> <<Cmd("join", "general"), Cmd("say", "hi")>>
          [] n = "b1" -> <<Cmd("join", "general")>>
          [] OTHER    -> <<>>]

InitChat ==
    /\ peers = [n \in Nodes |-> NodeRecord(n)]
    /\ channels = <<>>
    /\ lock = 0
    /\ pc = [w \in Workers |-> "idle"]
    /\ req = [w \in Workers |-> NoReq]
    /\ resp = [w \in Workers |-> NoResp]
    /\ keys = [w \in Workers |-> <<>>]
    /\ conn = [w \in Workers |-> "none"]
    /\ sent = [w \in Workers |-> 0]
    /\ nconn = 0
    /\ committed = Commit(peers, channels)
    /\ noJoinSince = {}
    /\ connections = [n \in Nodes |-> <<>>]
    /\ joined = [n \in Nodes |-> <<>>]
    /\ current_channel = [n \in Nodes |-> None]
    /\ running = [n \in Nodes |-> TRUE]
    /\ main = [n \in Nodes |-> MainIdle]
    /\ socks = <<>>
    /\ display = [n \in Nodes |-> <<>>]
    /\ console = ChatConsole

NextChat ==
    \/ \E n \in Nodes : JoinOk(n)
    \/ \E n \in Nodes : DiscoverQuery(n)
    \/ \E n \in Nodes : DiscoverSkip(n)
    \/ \E n \in Nodes : ConnectOk(n)
    \/ \E n \in Nodes : DiscoverDone(n)
    \/ \E s \in 1..MaxSock : HandshakeAccept(s)
    \/ \E s \in 1..MaxSock, side \in Sides : ListenRecv(s, side)
    \/ \E n \in Nodes : SendStart(n)
    \/ \E n \in Nodes : SendWrite(n)
    \/ \E n \in Nodes : SendDone(n)

SpecChat ==
    /\ InitChat /\ [][NextChat]_vars
    /\ \A n \in Nodes :
          WF_vars(DiscoverQuery(n) \/ DiscoverSkip(n) \/ ConnectOk(n) \/ DiscoverDone(n)
                    \/ SendWrite(n) \/ SendDone(n))
    /\ \A s \in 1..MaxSock : WF_vars(HandshakeAccept(s))
    /\ \A s \in 1..MaxSock, side \in Sides : WF_vars(ListenRecv(s, side))

\* --------------------------------- scenario: one peer with two connections
\* The three peers have joined general; b1 and c1 have each connected to a1
\* and a1 has accepted both handshakes.  a1 may have joined random since.
\* a1 and c1 talk, b1 may end at any moment.
MeshConsole ==
    [n \in Nodes |->
        CASE n = "a1" -> <<Cmd("say", "hi")>>
          [] n = "c1" -> <<Cmd("say", "yo")>>
          [] OTHER    -> <<>>]

Established(n, t) ==
    [from |-> n, to |-> t, a |-> "listen", b |-> "listen", toB |-> <<>>, toA |-> <<>>]

InitMesh ==
    /\ peers = [n \in Nodes |-> NodeRecord(n)]
    /\ \E cur \in ChannelNames :
        /\ current_channel = [n \in Nodes |-> IF n = "a1" THEN cur ELSE "general"]
        /\ joined = [n \in Nodes |->
                        IF n = "a1" /\ cur # "general" THEN <<"general", cur>> ELSE <<"general">>]
        /\ channels = IF cur = "general"
                         THEN <<[name |-> "general", members |-> <<"a1", "b1", "c1">>]>>
                         ELSE <<[name |-> "general", members |-> <<"a1", "b1", "c1">>],
                                [name |-> cur, members |-> <<"a1">>]>>
    /\ lock = 0
    /\ pc = [w \in Workers |-> "idle"]
    /\ req = [w \in Workers |-> NoReq]
    /\ resp = [w \in Workers |-> NoResp]
    /\ keys = [w \in Workers |-> <<>>]
    /\ conn = [w \in Workers |-> "none"]
    /\ sent = [w \in Workers |-> 0]
    /\ nconn = 0
    /\ committed = Commit(peers, channels)
    /\ noJoinSince = {}
    /\ socks = <<Established("b1", "a1"), Established("c1", "a1")>>
    /\ connections =
          [n \in Nodes |->
              CASE n = "a1" -> <<[peer_id |-> "b1", socket |-> 1, username |-> "Bob"],
                                 [peer_id |-> "c1", socket |-> 2, username |-> "Anonymous"]>>
                [] n = "b1" -> <<[peer_id |-> "a1", socket |-> 1, username |-> "Alice"]>>
                [] OTHER    -> <<[peer_id |-> "a1", socket |-> 2, username |-> "Alice"]>>]
    /\ running = [n \in Nodes |-> TRUE]
    /\ main = [n \in Nodes |-> MainIdle]
    /\ display = [n \in Nodes |-> <<>>]
    /\ console = MeshConsole

NextMesh ==
    \/ \E s \in 1..MaxSock, side \in Sides : ListenRecv(s, side)
    \/ \E s \in 1..MaxSock, side \in Sides : ListenExit(s, side)
    \/ \E n \in Nodes : SendStart(n)
    \/ \E n \in Nodes : SendWrite(n)
    \/ \E n \in Nodes : SendFail(n)
    \/ \E n \in Nodes : SendKeyError(n)
    \/ \E n \in Nodes : SendDone(n)
    \/ \E n \in Nodes : Exit(n)

SpecMesh == InitMesh /\ [][NextMesh]_vars

\* ------------------------------------- scenario: a connected peer stops
\* a PeerClient that is no peer of Nodes has found peer n at the Tracker: it
\* connects and sends its handshake.  The acceptor of n is in accept() also
\* after stop(), which leaves the listening socket open: `while self.running`
\* is tested only after this connection has been handed to its thread
Newcomer(n) ==
    /\ Alive(n)
    /\ Len(socks) < MaxSock
    /\ \A s \in Socks : socks[s].from # "d1"
    /\ socks' = Append(socks, [from |-> "d1", to |-> n, a |-> "open", b |-> "pending",
                               toB |-> <<Msg("handshake", None, "d1", "Dora", None)>>,
                               toA |-> <<>>])
    /\ UNCHANGED <<peers, channels, committed, workers, connections, joined,
                   current_channel, running, main, display, console>>

\* The peers are in general.  Either a1 has accepted the handshakes of b1 and
\* c1 ("mesh"), or of c1 only ("pair"), or a1 and b1 have found each other at
\* the same time, each has connected to the other and then accepted the
\* other's handshake, which has replaced the entry of its own connection
\* ("cross").  The user of the peer named first types /quit; another one
\* talks; b1 may end at any moment.
StopLayouts == {"mesh", "pair", "cross"}

StopSocks(l) ==
    CASE l = "mesh" -> <<Established("b1", "a1"), Established("c1", "a1")>>
      [] l = "pair" -> <<Established("c1", "a1")>>
      [] OTHER      -> <<Established("a1", "b1"), Established("b1", "a1")>>

StopEntry(k, sock) == [peer_id |-> k, socket |-> sock, username |-> Username(k)]

StopTables(l) ==
    CASE l = "mesh" -> [n \in Nodes |->
                          CASE n = "a1" -> <<StopEntry("b1", 1), StopEntry("c1", 2)>>
                            [] n = "b1" -> <<StopEntry("a1", 1)>>
                            [] OTHER    -> <<StopEntry("a1", 2)>>]
      [] l = "pair" -> [n \in Nodes |->
                          CASE n = "a1" -> <<StopEntry("c1", 1)>>
                            [] n = "c1" -> <<StopEntry("a1", 1)>>
                            [] OTHER    -> <<>>]
      [] OTHER      -> [n \in Nodes |->
                          CASE n = "a1" -> <<StopEntry("b1", 2)>>
                            [] n = "b1" -> <<StopEntry("a1", 1)>>
                            [] OTHER    -> <<>>]

StopConsole(l) ==
    CASE l = "cross" -> [n \in Nodes |->
                           CASE n = "b1" -> <<Cmd("quit", None)>>
                             [] n = "a1" -> <<Cmd("say", "hi")>>
                             [] OTHER    -> <<>>]
      [] OTHER       -> [n \in Nodes |->
                           CASE n = "a1" -> <<Cmd("quit", None)>>
                             [] n = "c1" -> <<Cmd("say", "yo")>>
                             [] OTHER    -> <<>>]

InitStop ==
    /\ peers = [n \in Nodes |-> NodeRecord(n)]
    /\ channels = <<[name |-> "general", members |-> <<"a1", "b1", "c1">>]>>
    /\ lock = 0
    /\ pc = [w \in Workers |-> "idle"]
    /\ req = [w \in Workers |-> NoReq]
    /\ resp = [w \in Workers |-> NoResp]
    /\ keys = [w \in Workers |-> <<>>]
    /\ conn = [w \in Workers |-> "none"]
    /\ sent = [w \in Workers |-> 0]
    /\ nconn = 0
    /\ committed = Commit(peers, channels)
    /\ noJoinSince = {}
    /\ \E l \in StopLayouts :
        /\ socks = StopSocks(l)
        /\ connections = StopTables(l)
        /\ console = StopConsole(l)
    /\ joined = [n \in Nodes |-> <<"general">>]
    /\ current_channel = [n \in Nodes |-> "general"]
    /\ running = [n \in Nodes |-> TRUE]
    /\ main = [n \in Nodes |-> MainIdle]
    /\ display = [n \in Nodes |-> <<>>]

NextStop ==
    \/ \E n \in Nodes : StopStart(n)
    \/ \E n \in Nodes : StopLogout(n)
    \/ \E n \in Nodes : StopClose(n)
    \/ \E n \in Nodes : StopRaise(n)
    \/ \E n \in Nodes : StopDone(n)
    \/ \E n \in Nodes : Newcomer(n)
    \/ \E s \in 1..MaxSock : HandshakeAccept(s)
    \/ \E s \in 1..MaxSock, side \in Sides : ListenRecv(s, side)
    \/ \E s \in 1..MaxSock, side \in Sides : ListenExit(s, side)
    \/ \E s \in 1..MaxSock, side \in Sides : ListenWake(s, side)
    \/ \E n \in Nodes : SendStart(n)
    \/ \E n \in Nodes : SendWrite(n)
    \/ \E n \in Nodes : SendFail(n)
    \/ \E n \in Nodes : SendKeyError(n)
    \/ \E n \in Nodes : SendDone(n)
    \/ \E n \in Nodes : Exit(n)

\* Every thread that can take a step is scheduled.  The users type when they
\* like, processes end when they like, and a recv in progress on a socket
\* that stop() has closed is not bound to end.
SpecStop ==
    /\ InitStop /\ [][NextStop]_vars
    /\ \A n \in Nodes :
          WF_vars(StopLogout(n) \/ StopClose(n) \/ StopRaise(n) \/ StopDone(n)
                    \/ SendWrite(n) \/ SendFail(n) \/ SendKeyError(n) \/ SendDone(n))
    /\ \A s \in 1..MaxSock : WF_vars(HandshakeAccept(s))
    /\ \A s \in 1..MaxSock, side \in Sides :
          WF_vars(ListenRecv(s, side) \/ ListenExit(s, side))

\* ------------------------------ scenario: two senders and one receiver
\* a1 has accepted the handshakes of b1 and c1, all are in general; c1 sends
\* three messages and b1 one
FifoConsole ==
    [n \in Nodes |->
        CASE n = "c1" -> <<Cmd("say", "one"), Cmd("say", "two"), Cmd("say", "three")>>
          [] n = "b1" -> <<Cmd("say", "zero")>>
          [] OTHER    -> <<>>]

InitFifo ==
    /\ peers = [n \in Nodes |-> NodeRecord(n)]
    /\ channels = <<[name |-> "general", members |-> <<"a1", "b1", "c1">>]>>
    /\ lock = 0
    /\ pc = [w \in Workers |-> "idle"]
    /\ req = [w \in Workers |-> NoReq]
    /\ resp = [w \in Workers |-> NoResp]
    /\ keys = [w \in Workers |-> <<>>]
    /\ conn = [w \in Workers |-> "none"]
    /\ sent = [w \in Workers |-> 0]
    /\ nconn = 0
    /\ committed = Commit(peers, channels)
    /\ noJoinSince = {}
    /\ socks = StopSocks("mesh")
    /\ connections = StopTables("mesh")
    /\ console = FifoConsole
    /\ joined = [n \in Nodes |-> <<"general">>]
    /\ current_channel = [n \in Nodes |-> "general"]
    /\ running = [n \in Nodes |-> TRUE]
    /\ main = [n \in Nodes |-> MainIdle]
    /\ display = [n \in Nodes |-> <<>>]

NextFifo ==
    \/ \E n \in Nodes : SendStart(n)
    \/ \E n \in Nodes : SendWrite(n)
    \/ \E n \in Nodes : SendDone(n)
    \/ \E s \in 1..MaxSock, side \in Sides : ListenRecv(s, side)

SpecFifo == InitFifo /\ [][NextFifo]_vars

\* ------------------------- scenario: a client that is no PeerClient talks
\* The listen port of a peer takes any client.  Client "ext" connects to a1,
\* sends a handshake and then what it likes: console["ext"] holds what it is
\* going to send.
GuestPayloads ==
    {Junk("ping"), Junk("badjson"), Junk("nondict"),
     Msg("handshake", None, "ext", "Eve", None), Msg("chat", "general", "ext", "Eve", "hey")}

GuestScripts ==
    {<<Msg("handshake", None, "ext", "Eve", None), x, y>> : x, y \in GuestPayloads}

GuestConnect(n) ==
    /\ Alive(n)
    /\ socks = <<>>
    /\ console["ext"] # <<>>
    /\ socks' = <<[from |-> "ext", to |-> n, a |-> "open", b |-> "pending",
                   toB |-> <<Head(console["ext"])>>, toA |-> <<>>]>>
    /\ console' = [console EXCEPT !["ext"] = Tail(@)]
    /\ UNCHANGED <<peers, channels, committed, workers, connections, joined,
                   current_channel, running, main, display>>

GuestSend(s) ==
    /\ s \in Socks /\ socks[s].from = "ext" /\ socks[s].a = "open"
    /\ console["ext"] # <<>>
    /\ socks' = [socks EXCEPT ![s] = Written(@, "a", Head(console["ext"]))]
    /\ console' = [console EXCEPT !["ext"] = Tail(@)]
    /\ UNCHANGED <<peers, channels, committed, workers, connections, joined,
                   current_channel, running, main, display>>

InitGuest ==
    /\ peers = [n \in Nodes |-> NodeRecord(n)]
    /\ channels = <<[name |-> "general", members |-> <<"a1">>]>>
    /\ lock = 0
    /\ pc = [w \in Workers |-> "idle"]
    /\ req = [w \in Workers |-> NoReq]
    /\ resp = [w \in Workers |-> NoResp]
    /\ keys = [w \in Workers |-> <<>>]
    /\ conn = [w \in Workers |-> "none"]
    /\ sent = [w \in Workers |-> 0]
    /\ nconn = 0
    /\ committed = Commit(peers, channels)
    /\ noJoinSince = {}
    /\ socks = <<>>
    /\ connections = [n \in Nodes |-> <<>>]
    /\ \E script \in GuestScripts :
          console = [n \in Nodes \cup {"ext"} |-> IF n = "ext" THEN script ELSE <<>>]
    /\ joined = [n \in Nodes |-> IF n = "a1" THEN <<"general">> ELSE <<>>]
    /\ current_channel = [n \in Nodes |-> IF n = "a1" THEN "general" ELSE None]
    /\ running = [n \in Nodes |-> TRUE]
    /\ main = [n \in Nodes |-> MainIdle]
    /\ display = [n \in Nodes |-> <<>>]

NextGuest ==
    \/ GuestConnect("a1")
    \/ \E s \in 1..MaxSock : GuestSend(s)
    \/ \E s \in 1..MaxSock : HandshakeAccept(s)
    \/ \E s \in 1..MaxSock, side \in Sides : ListenRecv(s, side)
    \/ \E s \in 1..MaxSock, side \in Sides : ListenExit(s, side)

SpecGuest == InitGuest /\ [][NextGuest]_vars

\* ----------------------------------- scenario: a channel is joined again
\* a1 comes back to a channel it is in; every join may fail
RejoinConsole ==
    [n \in Nodes |->
        CASE n = "a1" -> <<Cmd("join", "general"), Cmd("join", "random"), Cmd("join", "general")>>
          [] n = "b1" -> <<Cmd("join", "general")>>
          [] OTHER    -> <<>>]

InitRejoin ==
    /\ peers = [n \in Nodes |-> NodeRecord(n)]
    /\ channels = <<>>
    /\ lock = 0
    /\ pc = [w \in Workers |-> "idle"]
    /\ req = [w \in Workers |-> NoReq]
    /\ resp = [w \in Workers |-> NoResp]
    /\ keys = [w \in Workers |-> <<>>]
    /\ conn = [w \in Workers |-> "none"]
    /\ sent = [w \in Workers |-> 0]
    /\ nconn = 0
    /\ committed = Commit(peers, channels)
    /\ noJoinSince = {}
    /\ connections = [n \in Nodes |-> <<>>]
    /\ joined = [n \in Nodes |-> <<>>]
    /\ current_channel = [n \in Nodes |-> None]
    /\ running = [n \in Nodes |-> TRUE]
    /\ main = [n \in Nodes |-> MainIdle]
    /\ socks = <<>>
    /\ display = [n \in Nodes |-> <<>>]
    /\ console = RejoinConsole

NextRejoin ==
    \/ \E n \in Nodes : JoinOk(n)
    \/ \E n \in Nodes : JoinFail(n)
    \/ \E n \in Nodes : DiscoverQuery(n)
    \/ \E n \in Nodes : DiscoverQueryFail(n)
    \/ \E n \in Nodes : DiscoverSkip(n)
    \/ \E n \in Nodes : ConnectOk(n)
    \/ \E n \in Nodes : ConnectRefused(n)
    \/ \E n \in Nodes : DiscoverDone(n)
    \/ \E s \in 1..MaxSock : HandshakeAccept(s)

SpecRejoin == InitRejoin /\ [][NextRejoin]_vars

\* ------------------------------------------------ the web shim (ChatWebApp)
\* Every route but /login and /health decodes the body of the HTTP request
\* and hands the result to ChatWebApp.send_to_tracker with the method of the
\* route.  main["web"] is the thread that serves one HTTP request: the
\* method and the decoded body data of the call, the request it has sent to
\* the Tracker, the response the Tracker has written, and the result the
\* route gets back.
Routes ==
    {"/register-peer", "/get-peers", "/join-channel", "/leave-channel", "/get-channels",
     "/logout"}

RouteMethod(route) ==
    CASE route = "/register-peer" -> "register"
      [] route = "/get-peers"     -> "get_peers"
      [] route = "/join-channel"  -> "join_channel"
      [] route = "/leave-channel" -> "leave_channel"
      [] route = "/get-channels"  -> "get_channels"
      [] OTHER                    -> "logout"

\* the body of an HTTP request, reduced to the keys that matter on the way
\* to the Tracker; None stands for a key the object does not have.  raw
\* tells what json.loads makes of the body: an object, a JSON value that is
\* no object, or a JSONDecodeError
WebBodies ==
    {[raw |-> "json", method |-> m, peer_id |-> pid, channel |-> c] :
        m \in {None, "logout", "ping"}, pid \in {"a1", None}, c \in {"general", None}}
    \cup {[raw |-> x, method |-> None, peer_id |-> None, channel |-> None] :
            x \in {"nondict", "badjson"}}

WebIdle ==
    [pc |-> "idle", method |-> None, data |-> None, request |-> NoReq, response |-> NoResp,
     result |-> NoResp]

\* `request = {'method': method, **data}`: a key of data replaces the key of
\* the same name written before it
Tagged(method, data) ==
    Req(IF data.method # None THEN data.method ELSE method,
        data.peer_id, None, None, None, data.channel, "json")

\* handle_client and the handler it picks, run by one thread from recv to
\* send: the Registry and the ChannelIndex it leaves and the response
Outcome(p, ch, response) == [peers |-> p, channels |-> ch, response |-> response]

Handled(p, ch, r, now) ==
    CASE r.method = "register" ->
           IF RegisterValid(r)
           THEN Outcome(Upsert(p, r.peer_id, PeerRecord(r, now)), ch, RegisterResponse(r))
           ELSE Outcome(p, ch, ErrorResponse(<<"Missing required fields: peer_id, ip, port">>))
      [] r.method = "get_peers" ->
           Outcome(p, ch, GetPeersResponse(PeerList(p, ch, r.channel), r.channel))
      [] r.method = "join_channel" ->
           IF MemberValid(r)
           THEN Outcome(p, TrackerJoin(ch, r.peer_id, r.channel), JoinResponse(r.channel))
           ELSE Outcome(p, ch, ErrorResponse(<<"Missing required fields: peer_id, channel">>))
      [] r.method = "leave_channel" ->
           IF ~MemberValid(r)
           THEN Outcome(p, ch, ErrorResponse(<<"Missing required fields: peer_id, channel">>))
           ELSE IF IsMember(ch, r.channel, r.peer_id)
           THEN Outcome(p, DropIfEmpty(ChanSet(ch, r.channel,
                                               ListRemove(ChanGet(ch, r.channel), r.peer_id)),
                                       r.channel),
                        LeaveResponse(r.channel))
           ELSE Outcome(p, ch, LeaveResponse(r.channel))
      [] r.method = "get_channels" ->
           IF PeerValid(r)
           THEN Outcome(p, ch, GetChannelsResponse(UserChannels(ch, r.peer_id)))
           ELSE Outcome(p, ch, ErrorResponse(<<"Missing required field: peer_id">>))
      [] r.method = "logout" ->
           IF PeerValid(r)
           THEN Outcome(DictDel(p, r.peer_id), LogoutAll(ch, ChanKeys(ch), r.peer_id),
                        LogoutResponse)
           ELSE Outcome(p, ch, ErrorResponse(<<"Missing required field: peer_id">>))
      [] OTHER -> Outcome(p, ch, ErrorResponse(<<"Unknown method: ", r.method>>))

WebUnchanged ==
    UNCHANGED <<peers, channels, committed, workers, connections, joined, current_channel,
                running, socks, display, console>>

\* an HTTP request reaches a route: json.loads(body) raises and the route
\* answers with the error, or the route calls send_to_tracker
RouteCall(route) ==
    /\ main["web"].pc = "idle"
    /\ \E body \in WebBodies :
        main' = [main EXCEPT !["web"] =
                    IF body.raw = "badjson"
                    THEN [WebIdle EXCEPT !.result = ErrorResponse(<<"json.loads">>)]
                    ELSE [WebIdle EXCEPT !.pc = "call", !.method = RouteMethod(route),
                                         !.data = body]]
    /\ WebUnchanged

\* connect and build the request: `**data` raises TypeError when data is no
\* object; else the request is sent
ShimSend ==
    /\ main["web"].pc = "call"
    /\ LET m == main["web"] IN
       main' = [main EXCEPT !["web"] =
                    IF m.data.raw = "nondict"
                    THEN [WebIdle EXCEPT !.result = ErrorResponse(<<"Failed to connect to tracker">>)]
                    ELSE [m EXCEPT !.pc = "sent", !.request = Tagged(m.method, m.data)]]
    /\ WebUnchanged

\* connect is refused or times out
ShimFail ==
    /\ main["web"].pc = "call"
    /\ \E what \in {"Tracker server timeout", "Failed to connect to tracker"} :
        main' = [main EXCEPT !["web"] = [WebIdle EXCEPT !.result = ErrorResponse(<<what>>)]]
    /\ WebUnchanged

\* a connection thread of the Tracker serves the request
TrackerServes ==
    /\ main["web"].pc = "sent"
    /\ \E now \in Times :
        LET o == Handled(peers, channels, main["web"].request, now) IN
        /\ peers' = o.peers
        /\ channels' = o.channels
        /\ committed' = Commit(o.peers, o.channels)
        /\ main' = [main EXCEPT !["web"].pc = "answered", !["web"].response = o.response]
    /\ UNCHANGED <<workers, connections, joined, current_channel, running, socks, display,
                   console>>

\* recv gets the response: json.loads of what json.dumps has written
ShimReturn ==
    /\ main["web"].pc = "answered"
    /\ main' = [main EXCEPT !["web"].pc = "idle", !["web"].result = main["web"].response]
    /\ WebUnchanged

\* the response does not come within the 5 s of settimeout
ShimTimeout ==
    /\ main["web"].pc = "answered"
    /\ main' = [main EXCEPT !["web"].pc = "idle",
                            !["web"].result = ErrorResponse(<<"Tracker server timeout">>)]
    /\ WebUnchanged

\* a1 and b1 have registered and joined general
InitShim ==
    /\ peers = [n \in {"a1", "b1"} |-> NodeRecord(n)]
    /\ channels = <<[name |-> "general", members |-> <<"a1", "b1">>]>>
    /\ lock = 0
    /\ pc = [w \in Workers |-> "idle"]
    /\ req = [w \in Workers |-> NoReq]
    /\ resp = [w \in Workers |-> NoResp]
    /\ keys = [w \in Workers |-> <<>>]
    /\ conn = [w \in Workers |-> "none"]
    /\ sent = [w \in Workers |-> 0]
    /\ nconn = 0
    /\ committed = Commit(peers, channels)
    /\ noJoinSince = {}
    /\ connections = [n \in Nodes |-> <<>>]
    /\ joined = [n \in Nodes |-> <<>>]
    /\ current_channel = [n \in Nodes |-> None]
    /\ running = [n \in Nodes |-> TRUE]
    /\ main = [n \in Nodes \cup {"web"} |-> IF n = "web" THEN WebIdle ELSE MainIdle]
    /\ socks = <<>>
    /\ display = [n \in Nodes |-> <<>>]
    /\ console = [n \in Nodes |-> <<>>]

NextShim ==
    \/ \E route \in Routes : RouteCall(route)
    \/ ShimSend
    \/ ShimFail
    \/ TrackerServes
    \/ ShimReturn
    \/ ShimTimeout

SpecShim == InitShim /\ [][NextShim]_vars

\* ---------------------------------------------------------- send_to_tracker
\* what recv(4096) returns on the client socket: a response object of the
\* Tracker, nothing (the Tracker closed the connection without a response),
\* or the first 4096 bytes of a longer response
TrackerPayloads ==
    {[raw |-> "json", status |-> "success"], [raw |-> "json", status |-> "error"],
     [raw |-> "empty", status |-> None], [raw |-> "badjson", status |-> None]}

\* json.loads(response)
Decoded(p) == [status |-> p.status]

\* send_to_tracker(method, data): the socket is made with a timeout of 5 s
TripStart(n) ==
    /\ Reads(n, "call")
    /\ main' = [main EXCEPT ![n] = [MainIdle EXCEPT !.pc = "connect",
                                                     !.content = NextCmd(n).arg,
                                                     !.sock = "open"]]
    /\ UNCHANGED <<peers, channels, committed, workers, connections, joined,
                   current_channel, running, socks, display>>

\* sock.connect returns
TripConnect(n) ==
    /\ main[n].pc = "connect"
    /\ main' = [main EXCEPT ![n].pc = "request"]
    /\ UNCHANGED <<peers, channels, committed, workers, connections, joined,
                   current_channel, running, socks, display, console>>

\* sock.send returns
TripSend(n) ==
    /\ main[n].pc = "request"
    /\ main' = [main EXCEPT ![n].pc = "recv"]
    /\ UNCHANGED <<peers, channels, committed, workers, connections, joined,
                   current_channel, running, socks, display, console>>

\* sock.recv returns; the socket is closed, the bytes are decoded, and the
\* decoded object is returned or JSONDecodeError is caught
TripRecv(n) ==
    /\ main[n].pc = "recv"
    /\ \E p \in TrackerPayloads :
        main' = [main EXCEPT ![n] =
                    [MainIdle EXCEPT !.sock = "closed",
                                     !.result = IF p.raw = "json" THEN Decoded(p)
                                                ELSE TripError("json.loads")]]
    /\ UNCHANGED <<peers, channels, committed, workers, connections, joined,
                   current_channel, running, socks, display, console>>

\* connect, send or recv raises (refused, reset, or the timeout has run
\* out): the except clause prints and returns the error object.  No close
\* is called on this path: the socket object is left without a reference
TripRaise(n) ==
    /\ main[n].pc \in {"connect", "request", "recv"}
    /\ main' = [main EXCEPT ![n] =
                    [MainIdle EXCEPT !.sock = "unreferenced",
                                     !.result = TripError(main[n].pc)]]
    /\ UNCHANGED <<peers, channels, committed, workers, connections, joined,
                   current_channel, running, socks, display, console>>

\* the interpreter's collector finalises a socket object without reference,
\* which closes it: at once where objects are reference counted, at the
\* next collection elsewhere
Collect(n) ==
    /\ main[n].sock = "unreferenced"
    /\ main' = [main EXCEPT ![n].sock = "closed"]
    /\ UNCHANGED <<peers, channels, committed, workers, connections, joined,
                   current_channel, running, socks, display, console>>

\* scenario: the round trips of two peers, with a Tracker that may be down,
\* slow, or cut off
TripConsole ==
    [n \in Nodes |->
        CASE n = "a1" -> <<Cmd("call", "register"), Cmd("call", "join_channel")>>
          [] n = "b1" -> <<Cmd("call", "get_peers")>>
          [] OTHER    -> <<>>]

InitTrip ==
    /\ peers = <<>>
    /\ channels = <<>>
    /\ lock = 0
    /\ pc = [w \in Workers |-> "idle"]
    /\ req = [w \in Workers |-> NoReq]
    /\ resp = [w \in Workers |-> NoResp]
    /\ keys = [w \in Workers |-> <<>>]
    /\ conn = [w \in Workers |-> "none"]
    /\ sent = [w \in Workers |-> 0]
    /\ nconn = 0
    /\ committed = Commit(peers, channels)
    /\ noJoinSince = {}
    /\ connections = [n \in Nodes |-> <<>>]
    /\ joined = [n \in Nodes |-> <<>>]
    /\ current_channel = [n \in Nodes |-> None]
    /\ running = [n \in Nodes |-> TRUE]
    /\ main = [n \in Nodes |-> MainIdle]
    /\ socks = <<>>
    /\ display = [n \in Nodes |-> <<>>]
    /\ console = TripConsole

NextTrip ==
    \/ \E n \in Nodes : TripStart(n)
    \/ \E n \in Nodes : TripConnect(n)
    \/ \E n \in Nodes : TripSend(n)
    \/ \E n \in Nodes : TripRecv(n)
    \/ \E n \in Nodes : TripRaise(n)
    \/ \E n \in Nodes : Collect(n)

SpecTrip == InitTrip /\ [][NextTrip]_vars

\* ------------------------------------------------------------------ claims
\* the member list of channel c, empty when c is no key of the ChannelIndex
Members(c) == ChanGet(channels, c)

MemberSet(c) == {Members(c)[i] : i \in 1..Len(Members(c))}

\* thread w has just left its handler: the step from pc to "send"
Returned(w) == pc[w] # "send" /\ pc'[w] = "send"

\* C1: whenever no critical section is in progress, every channel name in the
\* ChannelIndex has at least one member.
C1_NoEmptyChannel ==
    lock = 0 => \A i \in 1..Len(channels) : channels[i].members # <<>>

\* a logout has visited every channel and thereby emptied the ChannelIndex
C1_Witness ==
    \E w \in Workers :
        /\ pc[w] = "logout_loop" /\ keys[w] = <<>>
        /\ committed.channels # <<>>
        /\ channels = <<>>

\* C2: once the N concurrent joins of N distinct peer_ids are all answered,
\* every answer was a success and the channel holds exactly those N peer_ids.
C2_AllJoined == \A w \in Workers : conn[w] = "closed"

C2_ConcurrentJoins ==
    /\ \A w \in Workers : pc[w] = "send" => resp[w] = JoinResponse(JoinChannel)
    /\ C2_AllJoined =>
          /\ Len(Members(JoinChannel)) = NumWorkers
          /\ MemberSet(JoinChannel) = {Joiner(w) : w \in Workers}

C2_Witness == C2_AllJoined /\ Len(Members(JoinChannel)) = NumWorkers

\* C3: no member list ever holds a peer_id twice, and a join_channel of a peer
\* that is already a member succeeds and leaves the ChannelIndex as it was.
C3_NoDuplicates ==
    \A i \in 1..Len(channels) :
        \A j, k \in 1..Len(channels[i].members) :
            j # k => channels[i].members[j] # channels[i].members[k]

C3_RejoinStep ==
    \A w \in Workers :
        (pc[w] = "join_add" /\ pc'[w] = "send"
            /\ req[w].peer_id \in MemberSet(req[w].channel))
        => (channels' = channels /\ resp'[w].status = "success")

C3_IdempotentJoin == []C3_NoDuplicates /\ [][C3_RejoinStep]_vars

\* two threads have both completed the same join and the peer is a member
C3_Witness ==
    \E w1, w2 \in Workers :
        /\ w1 # w2
        /\ pc[w1] = "send" /\ pc[w2] = "send"
        /\ req[w1].method = "join_channel" /\ req[w1] = req[w2]
        /\ req[w1].peer_id \in MemberSet(req[w1].channel)

\* C4: when logout(p) leaves its critical section p is in no Registry record
\* and in no member list, and a get_channels(p) that is served while p has not
\* joined a channel again answers success with no channels and count 0.
C4_LogoutStep ==
    \A w \in Workers :
        (pc[w] = "logout_loop" /\ pc'[w] = "send")
        => /\ req[w].peer_id \notin DOMAIN peers'
           /\ \A i \in 1..Len(channels') :
                 \A j \in 1..Len(channels'[i].members) :
                     channels'[i].members[j] # req[w].peer_id
           /\ resp'[w].status = "success"

C4_GetChannelsStep ==
    \A w \in Workers :
        (pc[w] = "recv" /\ pc'[w] = "send" /\ req'[w].method = "get_channels"
            /\ \E e \in noJoinSince : e[1] = req'[w].peer_id)
        => resp'[w] = [status |-> "success", channels |-> <<>>, count |-> 0]

C4_LogoutCascade == [][C4_LogoutStep /\ C4_GetChannelsStep]_vars

\* a logout that removed p from a channel was answered to one thread, a later
\* get_channels(p) to another
C4_Witness ==
    \E w1, w2 \in Workers :
        /\ pc[w1] = "send" /\ req[w1].method = "logout"
        /\ pc[w2] = "send" /\ req[w2].method = "get_channels"
        /\ req[w1].peer_id = req[w2].peer_id
        /\ \E e \in noJoinSince : e[1] = req[w2].peer_id /\ e[2] > 0
        /\ resp[w2].status = "success" /\ resp[w2].count = 0

\* C5: a successful register leaves exactly one record for its peer_id, made
\* of the ip, port and username of this request and the current time, whether
\* or not the peer_id had a record before.
C5_RegisterStep ==
    \A w \in Workers :
        (pc[w] = "recv" /\ pc'[w] = "send" /\ req'[w].method = "register"
            /\ resp'[w].status = "success")
        => /\ DOMAIN peers' = DOMAIN peers \cup {req'[w].peer_id}
           /\ peers'[req'[w].peer_id].ip = req'[w].ip
           /\ peers'[req'[w].peer_id].port = req'[w].port
           /\ peers'[req'[w].peer_id].username =
                 (IF req'[w].username = None THEN "Anonymous" ELSE req'[w].username)
           /\ peers'[req'[w].peer_id].timestamp \in Times

C5_RegistryUpsert == [][C5_RegisterStep]_vars

\* two registers of one peer_id with different ports were served; the record
\* is the one of the later register
C5_Witness ==
    \E w1, w2 \in Workers :
        /\ pc[w1] = "send" /\ pc[w2] = "send"
        /\ req[w1].method = "register" /\ req[w2].method = "register"
        /\ resp[w1].status = "success" /\ resp[w2].status = "success"
        /\ req[w1].peer_id = req[w2].peer_id
        /\ req[w1].port # req[w2].port
        /\ req[w1].peer_id \in DOMAIN peers
        /\ peers[req[w1].peer_id].port = req[w1].port

\* C6: a request that lacks a required field is answered with an error that
\* carries a message, and no step of its thread changes the Registry or the
\* ChannelIndex.
C6_Required(m) ==
    CASE m = "register" -> {"peer_id", "ip", "port"}
      [] m \in {"join_channel", "leave_channel"} -> {"peer_id", "channel"}
      [] m \in {"get_channels", "logout"} -> {"peer_id"}
      [] OTHER -> {}

C6_Lacks(r) == r.raw = "json" /\ \E f \in C6_Required(r.method) : r[f] = None

C6_InvalidStep ==
    \A w \in Workers :
        /\ (pc[w] = "recv" /\ pc'[w] # "recv" /\ C6_Lacks(req'[w]))
           => /\ pc'[w] = "send"
              /\ resp'[w].status = "error"
              /\ resp'[w].message # <<>>
              /\ peers' = peers /\ channels' = channels
        /\ (pc[w] # pc'[w] /\ C6_Lacks(req[w]))
           => (peers' = peers /\ channels' = channels)

C6_ValidationNoMutation == [][C6_InvalidStep]_vars

\* a request without its channel was rejected while the Tracker holds state
C6_Witness ==
    \E w \in Workers :
        /\ pc[w] = "send" /\ C6_Lacks(req[w])
        /\ req[w].method = "join_channel" /\ req[w].peer_id # None
        /\ resp[w].status = "error"
        /\ DOMAIN peers # {} /\ channels # <<>>

\* C7: undecodable JSON and unknown methods are answered with an error (for
\* an unknown method X the message is 'Unknown method: X'), the answer is the
\* one response written, the connection is closed after it, and the Registry
\* and the ChannelIndex stay as they were.
C7_Malformed(r) ==
    r.raw = "badjson" \/ (r.raw = "json" /\ r.method \notin KnownMethods)

C7_MalformedStep ==
    \A w \in Workers :
        /\ (pc[w] = "recv" /\ pc'[w] # "recv" /\ C7_Malformed(req'[w]))
           => /\ pc'[w] = "send"
              /\ resp'[w].status = "error"
              /\ resp'[w].message # <<>>
              /\ (req'[w].raw = "json"
                    => resp'[w].message = <<"Unknown method: ", req'[w].method>>)
              /\ peers' = peers /\ channels' = channels
        /\ (pc[w] = "send" /\ pc'[w] # "send" /\ C7_Malformed(req[w]))
           => /\ resp[w].status = "error"
              /\ sent[w] = 0 /\ sent'[w] = 1
              /\ conn'[w] = "closed"
              /\ peers' = peers /\ channels' = channels

C7_MalformedRequest == [][C7_MalformedStep]_vars

\* an unknown method was answered while the Tracker holds state
C7_Witness ==
    \E w \in Workers :
        /\ pc[w] = "send" /\ req[w].raw = "json" /\ req[w].method = "ping"
        /\ resp[w] = ErrorResponse(<<"Unknown method: ", "ping">>)
        /\ DOMAIN peers # {} /\ channels # <<>>

\* C8: get_peers for a channel of the ChannelIndex answers with the records
\* of the members of that channel and no others, get_peers without a channel
\* answers with the whole Registry, count is the number of records answered,
\* and nothing is changed.
C8_GetPeersStep ==
    \A w \in Workers :
        (pc[w] = "recv" /\ pc'[w] # "recv" /\ req'[w].method = "get_peers")
        => /\ pc'[w] = "send"
           /\ resp'[w].status = "success"
           /\ resp'[w].count = Cardinality(DOMAIN resp'[w].peers)
           /\ peers' = peers /\ channels' = channels
           /\ (req'[w].channel # None /\ ChanHas(channels, req'[w].channel))
              => /\ DOMAIN resp'[w].peers = MemberSet(req'[w].channel) \cap DOMAIN peers
                 /\ \A pid \in DOMAIN resp'[w].peers : resp'[w].peers[pid] = peers[pid]
           /\ req'[w].channel = None => resp'[w].peers = peers

C8_GetPeers == [][C8_GetPeersStep]_vars

\* a get_peers for a channel left out the record of a registered non-member
C8_Witness ==
    \E w \in Workers :
        /\ pc[w] = "send" /\ req[w].method = "get_peers"
        /\ ChanHas(channels, req[w].channel)
        /\ DOMAIN peers # {}
        /\ DOMAIN peers \cap MemberSet(req[w].channel) = {}
        /\ resp[w].count = 0

\* C9: get_peers for a channel name that is no key of the ChannelIndex answers
\* success with an empty peers map and count 0.
C9_MissingChannelStep ==
    \A w \in Workers :
        (pc[w] = "recv" /\ pc'[w] = "send" /\ req'[w].method = "get_peers"
            /\ req'[w].channel # None /\ ~ChanHas(channels, req'[w].channel))
        => /\ resp'[w].status = "success"
           /\ DOMAIN resp'[w].peers = {}
           /\ resp'[w].count = 0

C9_MissingChannelEmpty == [][C9_MissingChannelStep]_vars

\* C10: the operations take effect one at a time.  committed is the state the
\* last finished critical section left; every operation that returns has
\* changed it by its sequential effect as a whole, every get_peers and
\* get_channels answer is computed from it, and whenever no critical section
\* is in progress the Registry and the ChannelIndex are equal to it.
C10_LogoutAll(ch, pid) ==
    LET stripped == [i \in 1..Len(ch) |->
                        [name |-> ch[i].name,
                         members |-> SelectSeq(ch[i].members, LAMBDA m : m # pid)]]
    IN  SelectSeq(stripped, LAMBDA e : e.members # <<>>)

C10_Effects(st, r) ==
    CASE r.method = "register" ->
           { Commit(DictSet(st.peers, r.peer_id, PeerRecord(r, now)), st.channels) :
               now \in Times }
      [] r.method = "join_channel" ->
           { Commit(st.peers,
                    IF IsMember(st.channels, r.channel, r.peer_id) THEN st.channels
                    ELSE ChanSet(st.channels, r.channel,
                                 Append(ChanGet(st.channels, r.channel), r.peer_id))) }
      [] r.method = "leave_channel" ->
           { Commit(st.peers,
                    IF ~IsMember(st.channels, r.channel, r.peer_id) THEN st.channels
                    ELSE IF Len(ChanGet(st.channels, r.channel)) = 1
                         THEN ChanDel(st.channels, r.channel)
                         ELSE ChanSet(st.channels, r.channel,
                                      SelectSeq(ChanGet(st.channels, r.channel),
                                                LAMBDA m : m # r.peer_id))) }
      [] r.method = "logout" ->
           { Commit(DictDel(st.peers, r.peer_id), C10_LogoutAll(st.channels, r.peer_id)) }
      [] OTHER -> {st}

C10_Answers(st, r, a) ==
    CASE r.method = "get_peers" ->
           a = GetPeersResponse(PeerList(st.peers, st.channels, r.channel), r.channel)
      [] r.method = "get_channels" ->
           a = GetChannelsResponse(UserChannels(st.channels, r.peer_id))
      [] OTHER -> TRUE

C10_LinearStep ==
    /\ lock' = 0 => committed' = Commit(peers', channels')
    /\ \A w \in Workers :
          (Returned(w) /\ resp'[w].status = "success")
          => /\ committed' \in C10_Effects(committed, req'[w])
             /\ C10_Answers(committed, req'[w], resp'[w])

C10_Linearizable == [][C10_LinearStep]_vars

\* a get_channels(p) answer that names a channel waits to be sent while a
\* logout of p is inside its critical section and has not yet visited that
\* channel
C10_Witness ==
    \E w1, w2 \in Workers :
        /\ pc[w1] = "logout_loop" /\ keys[w1] # <<>>
        /\ pc[w2] = "send" /\ req[w2].method = "get_channels"
        /\ req[w2].peer_id = req[w1].peer_id
        /\ resp[w2].channels = <<Head(keys[w1])>>
        /\ req[w1].peer_id \in MemberSet(Head(keys[w1]))

\* C11 as stated: every accepted connection is closed after exactly one
\* response was written to it, on every path.
C11_ExactlyOneStep ==
    \A w \in Workers :
        (conn[w] = "open" /\ conn'[w] = "closed") => sent'[w] = 1

C11_Shape ==
    \A w \in Workers :
        /\ sent[w] <= 1
        /\ conn[w] = "open" <=> pc[w] # "idle"
        /\ conn[w] = "open" => sent[w] = 0
        /\ pc[w] = "send" =>
              /\ resp[w].status \in {"success", "error"}
              /\ resp[w].status = "error" => resp[w].message # <<>>
              /\ req[w] # NoReq

C11_ServeStep ==
    \A w \in Workers :
        /\ (pc[w] = "send" /\ pc'[w] # "send")
           => (pc'[w] = "idle" /\ conn'[w] = "closed" /\ sent'[w] = 1)
        /\ (pc[w] = "recv" /\ pc'[w] = "idle")
           => (conn'[w] = "closed" /\ sent'[w] = 0 /\ req[w] = NoReq)
        /\ (pc[w] # "recv" /\ req[w] # NoReq /\ pc'[w] # "idle") => req'[w] = req[w]

C12_LockNotHeldBlocked ==
    /\ \A w \in Workers : pc[w] \in {"idle", "recv", "send"} => lock # w
    /\ lock # 0 => pc[lock] \in {"join_add", "leave_gc", "logout_loop"}

C12_StallDoesNotBlock ==
    /\ []C12_LockNotHeldBlocked
    /\ (pc[Served] = "recv") ~> (pc[Served] = "idle" /\ sent[Served] = 1)

\* the served thread runs logout's loop while the response of another thread
\* waits for a client that does not read
C12_Witness ==
    \E w \in Workers \ {Served} :
        /\ pc[w] = "send"
        /\ lock = Served /\ pc[Served] = "logout_loop" /\ keys[Served] # <<>>

\* the last outcome a loop of peer n has logged
LastOutcome(n) == main'[n].log[Len(main'[n].log)][2]

\* peer n's loop visits the next element of its list
Visits(n) ==
    /\ main[n].todo # <<>>
    /\ main'[n].pc = main[n].pc
    /\ main'[n].todo = Tail(main[n].todo)

\* C13: a join_channel(c) that the Tracker answers with success puts c in the
\* local channel list, makes it current_channel and enters discovery; the
\* get_peers answer names the registered members of c; the loop attempts a
\* handshake to a returned peer_id exactly if it is not the peer itself and
\* not a key of the Connection Table when visited, the attempt goes to the
\* address of that peer_id's record, and a peer opens no other transport.
C13_JoinStep ==
    \A n \in Nodes :
        (main[n].pc = "idle" /\ main'[n].pc = "query")
        => LET c == Head(console[n]).arg IN
           /\ Contains(joined'[n], c)
           /\ current_channel'[n] = c
           /\ main'[n].channel = c

C13_QueryStep ==
    \A n \in Nodes :
        (main[n].pc = "query" /\ main'[n].pc = "discover")
        => {main'[n].todo[i].peer_id : i \in 1..Len(main'[n].todo)}
             = MemberSet(main[n].channel) \cap DOMAIN peers

C13_VisitStep ==
    \A n \in Nodes :
        (main[n].pc = "discover" /\ Visits(n))
        => LET e == Head(main[n].todo) IN
           /\ LastOutcome(n) # "skipped"
                <=> (e.peer_id # n /\ e.peer_id \notin ConnKeys(connections[n]))
           /\ LastOutcome(n) = "connected"
                => /\ Len(socks') = Len(socks) + 1
                   /\ socks'[Len(socks')].from = n
                   /\ socks'[Len(socks')].to = e.peer_id
                   /\ socks'[Len(socks')].toB = <<Handshake(n)>>

C13_NoOtherStep ==
    (Len(socks') > Len(socks) /\ socks'[Len(socks')].from \in Nodes)
    => LET n == socks'[Len(socks')].from IN
       /\ main[n].pc = "discover" /\ Visits(n)
       /\ Head(main[n].todo).peer_id = socks'[Len(socks')].to
       /\ Head(main[n].todo).peer_id \notin ConnKeys(connections[n]) \cup {n}

C13_JoinDiscovers ==
    [][C13_JoinStep /\ C13_QueryStep /\ C13_VisitStep /\ C13_NoOtherStep]_vars

\* a discovery has connected to the other member and skipped the peer itself
C13_Witness ==
    \E n \in Nodes :
        /\ main[n].pc = "discover" /\ main[n].todo = <<>>
        /\ Len(main[n].log) = 2
        /\ main[n].log[1][2] = "connected"
        /\ main[n].log[2] = <<n, "skipped">>
        /\ current_channel[n] = main[n].channel

\* Alice and Bob have both joined general, no discovery is in progress and
\* every accepted connection has been through its handshake
C14_Finished ==
    /\ \A n \in {"a1", "b1"} :
          /\ Contains(joined[n], "general")
          /\ main[n].pc \notin {"query", "discover"}
    /\ \A s \in Socks : socks[s].b # "pending"

C14_Connected ==
    C14_Finished => ConnHas(connections["a1"], "b1") /\ ConnHas(connections["b1"], "a1")

\* send_message("general", "hi") of Alice has taken its list of connections
C14_Sends ==
    /\ C14_Finished
    /\ main["a1"].pc = "sending" /\ main["a1"].log = <<>>
    /\ main["a1"].todo = connections["a1"]

C14_Displayed ==
    \E i \in 1..Len(display["b1"]) :
        display["b1"][i].line = <<"[", "Alice", " @", "general", "]> ", "hi">>

\* C14: two registered, accepting peers that both join the same channel, in
\* either order or concurrently, have each other in their Connection Tables
\* once discovery and handshakes have finished, and a chat message one of
\* them then sends is eventually displayed by the other as
\* [<username> @<channel>]> <text>.
C14_MeetAndTalk == []C14_Connected /\ (C14_Sends ~> C14_Displayed)

C14_Witness ==
    /\ C14_Finished /\ C14_Displayed
    /\ ConnHas(connections["a1"], "b1") /\ ConnHas(connections["b1"], "a1")

\* the accepting thread of transport s takes its step
C15_Handled(s) ==
    /\ s \in Socks /\ s \in 1..Len(socks')
    /\ socks[s].b = "pending" /\ socks'[s].b # "pending"
    /\ Alive(socks[s].to) /\ main'[socks[s].to].pc # "dead"

\* the first read of the accepting thread: the payload's type, "empty" for
\* a read that fails or returns nothing
C15_First(s) == IF socks[s].toB = <<>> THEN "empty" ELSE Head(socks[s].toB).type

\* C15: an accepted connection whose first payload is a handshake adds the
\* entry [handshake's peer_id -> this connection, declared username] to the
\* acceptor's Connection Table and starts the connection's listener; one
\* whose first payload is no JSON, or whose first read fails or is empty, is
\* closed by the acceptor and changes no Connection Table.
C15_HandshakeStep ==
    \A s \in 1..MaxSock :
        C15_Handled(s) =>
            LET t  == socks[s].to
                hs == Head(socks[s].toB) IN
            /\ C15_First(s) = "handshake"
                 => /\ socks'[s].b = "listen"
                    /\ \E i \in 1..Len(connections'[t]) :
                          connections'[t][i] =
                              [peer_id |-> hs.peer_id, socket |-> s, username |-> hs.username]
                    /\ \A k \in ConnKeys(connections'[t]) \cup ConnKeys(connections[t]) :
                          k # hs.peer_id =>
                              /\ ConnHas(connections[t], k) /\ ConnHas(connections'[t], k)
                              /\ \A i \in 1..Len(connections[t]) :
                                    connections[t][i].peer_id = k
                                    => \E j \in 1..Len(connections'[t]) :
                                          connections'[t][j] = connections[t][i]
            /\ C15_First(s) \in {"badjson", "empty"}
                 => /\ socks'[s].b = "closed"
                    /\ connections' = connections
            /\ \A n \in Nodes \ {t} : connections'[n] = connections[n]

C15_InboundHandshake == [][C15_HandshakeStep]_vars

\* a peer has accepted a handshake and has closed a connection that sent
\* something else
C15_Witness ==
    /\ \E s \in Socks :
          /\ socks[s].from \in Nodes /\ socks[s].b = "listen"
          /\ ConnHas(connections[socks[s].to], socks[s].from)
    /\ \E s \in Socks : socks[s].from = "ext" /\ socks[s].b = "closed"

\* the discovery loop of peer n has just had connect_to_peer fail
C16_Failed(n) == main[n].pc = "discover" /\ Visits(n) /\ LastOutcome(n) = "failed"

\* C16: when connect() or the send of the handshake fails for a discovered
\* peer, no Connection Table changes, no transport is left, the loop of
\* connect_to_channel_peers goes on with exactly the peers that were still to
\* be visited (the failed one is not among them), and a discovery loop ends
\* only by having visited every returned peer.
C16_FailStep ==
    \A n \in Nodes :
        /\ C16_Failed(n)
            => /\ connections' = connections
               /\ socks' = socks
               /\ main'[n].pc = "discover"
               /\ main'[n].todo = Tail(main[n].todo)
               /\ \A i \in 1..Len(main'[n].todo) :
                     main'[n].todo[i].peer_id # Head(main[n].todo).peer_id
        /\ (main[n].pc = "discover" /\ main'[n] # main[n])
            => \/ Visits(n)
               \/ main[n].todo = <<>> /\ main'[n] = MainIdle
               \/ main'[n].pc = "dead"

C16_FailedHandshakeSkipped == [][C16_FailStep]_vars

\* a discovery went on to the next peer after a failed connect_to_peer
C16_Witness ==
    \E n \in Nodes :
        /\ main[n].pc = "discover"
        /\ Len(main[n].log) = 2
        /\ main[n].log[1][2] = "failed"
        /\ main[n].log[2] = <<n, "skipped">>
        /\ ~ConnHas(connections[n], main[n].log[1][1])

\* the listener of the given side of transport s leaves its loop
C17_Exits(s, side) ==
    /\ s \in Socks
    /\ Mine(socks[s], side) = "listen" /\ Mine(socks'[s], side) = "closed"
    /\ main'[Owner(socks[s], side)].pc # "dead"

\* C17: a listener's loop is left only when its recv has failed or returned
\* nothing; leaving it removes the entry of the listener's peer_id from the
\* owner's Connection Table and closes that socket, while every other entry
\* of that table, every other peer's table, every other transport with its
\* listeners, and the owner's main thread are as before.
C17_ExitStep ==
    \A s \in 1..MaxSock, side \in Sides :
        C17_Exits(s, side) =>
            LET n == Owner(socks[s], side)
                k == Key(socks[s], side) IN
            /\ \/ Inbox(socks[s], side) = <<>> /\ Theirs(socks[s], side) = "closed"
               \/ Inbox(socks[s], side) # <<>> /\ Head(Inbox(socks[s], side)).type = "nondict"
            /\ ~ConnHas(connections'[n], k)
            /\ connections'[n] = SelectSeq(connections[n], LAMBDA e : e.peer_id # k)
            /\ \A m \in Nodes \ {n} : connections'[m] = connections[m]
            /\ \A t \in Socks \ {s} : socks'[t] = socks[t]
            /\ main' = main

C17_DeadConnectionCleanup == [][C17_ExitStep]_vars

\* b1 has ended and a1's listener for it has left: a1's table has lost b1
\* and kept c1, whose listener is still in its loop
C17_Witness ==
    /\ main["b1"].pc = "dead"
    /\ socks[1] = Gone
    /\ ~ConnHas(connections["a1"], "b1")
    /\ ConnHas(connections["a1"], "c1")
    /\ socks[2].b = "listen"
    /\ main["a1"].pc = "idle" /\ console["a1"] # <<>>

\* send_message of peer n takes the step for the next entry of its list
C18_Steps(n) ==
    /\ main[n].pc = "sending" /\ main[n].todo # <<>>
    /\ main'[n] # main[n] /\ main'[n].pc # "dead"

\* C18: every step of send_message on an entry of its list, a failing write
\* included, goes on to the rest of the list, and a failing write changes
\* the sender's Connection Table by at most the entry of that connection,
\* whatever the listeners have done to the table in between.
C18_WriteStep ==
    \A n \in Nodes :
        C18_Steps(n) =>
            /\ main'[n].pc = "sending"
            /\ main'[n].todo = Tail(main[n].todo)
            /\ connections'[n] \in {connections[n],
                                    ConnDel(connections[n], Head(main[n].todo).peer_id)}

C18_FailureDoesNotAbort == [][C18_WriteStep]_vars

\* peer n leaves send_message
C19_Ends(n) == main[n].pc = "sending" /\ main'[n].pc \in {"idle", "crashed"}

\* the chat message the running send_message of peer n was called for
C19_Message(n) ==
    [type |-> "chat", channel |-> main[n].channel, peer_id |-> n,
     username |-> Username(n), content |-> main[n].content]

\* C19: a write of send_message puts the chat message {type, channel,
\* peer_id, username, content} of the call on the written transport, and
\* when send_message is left it has written to every peer of the Connection
\* Table, member of the channel or not (no transport is opened during the
\* send, so the table holds no peer that was not in it at the call).
C19_SendStep ==
    \A n \in Nodes :
        /\ (main[n].pc = "sending" /\ Visits(n) /\ LastOutcome(n) = "written")
            => LET s  == Head(main[n].todo).socket
                   sd == SideOf(socks[s], n) IN
               socks'[s] \in {socks[s], Written(socks[s], sd, C19_Message(n))}
        /\ C19_Ends(n)
            => \A i \in 1..Len(connections'[n]) :
                  \E j \in 1..Len(main[n].log) :
                      main[n].log[j] = <<connections'[n][i].peer_id, "written">>

C19_BroadcastToTable == [][C19_SendStep]_vars

\* C20: a chat message is put on the display only while its channel is the
\* receiver's current_channel.
C20_DisplayStep ==
    \A n \in Nodes :
        Len(display'[n]) > Len(display[n])
        => display'[n][Len(display'[n])].line[4] = current_channel[n]

C20_DisplayFiltered == [][C20_DisplayStep]_vars

\* C24: a join_channel with a peer_id and a channel succeeds and makes the
\* peer_id a member whether or not the Registry has a record of it, and every
\* get_peers answer holds records of the Registry only, under their own
\* peer_ids: a member without a record is in no answer.
C24_Step ==
    \A w \in Workers :
        /\ (Returned(w) /\ req'[w].method = "join_channel" /\ MemberValid(req'[w]))
            => /\ resp'[w].status = "success"
               /\ IsMember(channels', req'[w].channel, req'[w].peer_id)
               /\ peers' = peers
        /\ (Returned(w) /\ req'[w].method = "get_peers")
            => /\ resp'[w].status = "success"
               /\ DOMAIN resp'[w].peers \subseteq DOMAIN peers
               /\ \A pid \in DOMAIN resp'[w].peers : resp'[w].peers[pid] = peers[pid]

C24_MembershipWithoutRegistration == [][C24_Step]_vars

\* a get_peers for a channel is answered while a member of that channel has
\* no record: the answer leaves the member out
C24_Witness ==
    \E w \in Workers, pid \in PeerIds :
        /\ pc[w] = "send" /\ req[w].method = "get_peers"
        /\ Truthy(req[w].channel)
        /\ IsMember(channels, req[w].channel, pid)
        /\ pid \notin DOMAIN peers
        /\ pid \notin DOMAIN resp[w].peers

\* the connection of thread w fails in this step: nothing or no JSON object
\* was received, the handler raised, or the response could not be written
C29_Fails(w) ==
    \/ pc[w] = "recv" /\ pc'[w] = "idle"
    \/ Returned(w) /\ req'[w].raw # "json"
    \/ pc[w] = "send" /\ pc'[w] = "idle" /\ sent'[w] = sent[w]

\* the request thread w is working on has passed its handler's validation
C29_Validated(w) ==
    /\ req'[w].raw = "json"
    /\ CASE req'[w].method = "register" -> RegisterValid(req'[w])
         [] req'[w].method \in {"join_channel", "leave_channel"} -> MemberValid(req'[w])
         [] req'[w].method = "logout" -> PeerValid(req'[w])
         [] OTHER -> FALSE

\* C29: a connection that fails changes neither the Registry nor the
\* ChannelIndex nor the lock nor anything of another connection's thread;
\* the Registry and the ChannelIndex are changed only by a thread whose
\* request has passed validation; no ended thread holds the lock; and the
\* accept loop takes the next connection whatever became of the earlier ones.
C29_Step ==
    /\ \A w \in Workers :
          C29_Fails(w)
          => /\ peers' = peers /\ channels' = channels /\ lock' = lock
             /\ committed' = committed
             /\ \A v \in Workers \ {w} :
                   /\ pc'[v] = pc[v] /\ req'[v] = req[v] /\ resp'[v] = resp[v]
                   /\ conn'[v] = conn[v] /\ sent'[v] = sent[v]
    /\ (peers' # peers \/ channels' # channels)
          => \E w \in Workers : pc'[w] # "idle" /\ pc'[w] # pc[w] /\ C29_Validated(w)

C29_Serving ==
    /\ \A w \in Workers : pc[w] \in {"idle", "recv", "send"} => lock # w
    /\ \A w \in Workers : (pc[w] = "idle" /\ nconn < MaxConn) => ENABLED Accept(w)
    /\ lock = 0 => Commit(peers, channels) = committed

C29_FailureConfined == []C29_Serving /\ [][C29_Step]_vars

\* one connection has ended without a response while another one, of a
\* register request, has its success response ready and the record is in
\* the Registry
C29_Witness ==
    \E w, v \in Workers :
        /\ w # v
        /\ pc[w] = "idle" /\ conn[w] = "closed" /\ sent[w] = 0
        /\ pc[v] = "send" /\ req[v].method = "register" /\ resp[v].status = "success"
        /\ req[v].peer_id \in DOMAIN peers
        /\ nconn >= 2

\* peer n returns from send_to_tracker
C22_Returns(n) == main[n].pc \in {"connect", "request", "recv"} /\ main'[n].pc = "idle"

\* C22: send_to_tracker returns an object with a status, which is the
\* Tracker's response if one was received and decoded and has status error
\* otherwise, and its client socket is closed when it returns.
C22_ReturnStep ==
    \A n \in Nodes :
        C22_Returns(n)
        => /\ main'[n].result.status \in {"success", "error"}
           /\ main'[n].sock = "closed"

C22_RoundTripEnds == [][C22_ReturnStep]_vars

\* C21: stop() sets running to false, then sends logout to the Tracker, then
\* closes every transport in the Connection Table: when stop() is left, no
\* transport of the table is still open with its listener in recv.
C21_Open(n) ==
    {i \in 1..Len(connections[n]) :
        LET sk == socks[connections[n][i].socket] IN Mine(sk, SideOf(sk, n)) = "listen"}

C21_StopStep ==
    \A n \in Nodes :
        /\ (main[n].pc = "idle" /\ main'[n].pc = "logout") => ~running'[n]
        /\ (main[n].pc = "logout" /\ main'[n].pc = "closing") => socks' = socks
        /\ (main[n].pc = "closing" /\ main'[n].pc \in {"stopped", "crashed"})
              => C21_Open(n) = {}

C21_StopClosesAll == [][C21_StopStep]_vars

\* C30: after stop() the Connection Table of the peer becomes empty in the
\* end, also when a handshake that arrives later adds an entry: at every
\* moment after stop() has been left, a moment follows at which the table
\* is empty.
C30_Left(n) == ~running[n] /\ main[n].pc \in {"stopped", "crashed"}

C30_TableEmpties == \A n \in Nodes : C30_Left(n) ~> (connections[n] = <<>>)

\* C25: a listener that exits removes only the entry of its own connection:
\* no step of a living peer leaves it without an entry for a peer_id whose
\* entry held a transport that is still open at both ends, with both
\* listeners in recv, after the step.
C25_Kept(n, e) ==
    LET sk == socks'[e.socket] IN
    (Mine(sk, SideOf(sk, n)) = "listen" /\ Theirs(sk, SideOf(sk, n)) = "listen")
        => \E j \in 1..Len(connections'[n]) : connections'[n][j].peer_id = e.peer_id

C25_Step ==
    \A n \in Nodes :
        main'[n].pc # "dead"
            => \A i \in 1..Len(connections[n]) : C25_Kept(n, connections[n][i])

C25_ExitRemovesOwnEntry == [][C25_Step]_vars

\* C26: for every remote peer_id a peer holds at most one open transport
\* with a running listener, and it is the one its Connection Table stores
\* under that peer_id.
C26_Listened(n, k) ==
    {s \in Socks : \/ socks[s].from = n /\ socks[s].to = k /\ socks[s].a = "listen"
                   \/ socks[s].from = k /\ socks[s].to = n /\ socks[s].b = "listen"}

C26_OneTransportPerPeer ==
    \A n \in Nodes, k \in Nodes :
        /\ Cardinality(C26_Listened(n, k)) <= 1
        /\ \A s \in C26_Listened(n, k) :
              \E i \in 1..Len(connections[n]) :
                  connections[n][i].peer_id = k /\ connections[n][i].socket = s

\* C27: an accepted connection whose first payload is a JSON object of
\* another type than handshake is closed: no accepted connection is open
\* at the accepting peer without a listener and an entry.
C27_Orphans == {s \in Socks : socks[s].b = "orphan" /\ Alive(socks[s].to)}

C27_NoOrphan == C27_Orphans = {}

\* C28: when join_channel gets an error from the Tracker or does not reach
\* it, the channel list, current_channel and the Connection Table of the
\* peer stay as they are, and it begins no discovery and opens no
\* connection.
C28_JoinFails(n) ==
    /\ main[n].pc = "idle" /\ console[n] # <<>> /\ NextCmd(n).cmd = "join"
    /\ console'[n] = Tail(console[n])
    /\ main'[n].result.status # "success"

C28_Step ==
    \A n \in Nodes :
        C28_JoinFails(n)
            => /\ joined'[n] = joined[n]
               /\ current_channel'[n] = current_channel[n]
               /\ connections'[n] = connections[n]
               /\ main'[n].pc = "idle"
               /\ socks' = socks
               /\ peers' = peers /\ channels' = channels

C28_FailedJoinChangesNothing == [][C28_Step]_vars

\* a peer that is in general with a connection has failed to join random
C28_Witness ==
    \E n \in Nodes :
        /\ main[n].pc = "idle" /\ main[n].result.status = "error"
        /\ Len(console[n]) < Len(PairConsole[n]) - 1
        /\ joined[n] = <<"general">> /\ current_channel[n] = "general"
        /\ connections[n] # <<>>

\* C23: on one connection chat messages reach the handler of the receiver in
\* the order the sender wrote them: of two messages of one sender that a1
\* displays, the one displayed first was sent first.  Between the messages
\* of b1 and of c1 no order is kept.
C23_SentBy(n) == [i \in 1..Len(FifoConsole[n]) |-> FifoConsole[n][i].arg]

C23_ShownOf(n) ==
    LET ls == SelectSeq(display["a1"], LAMBDA l : l.line[2] = Username(n)) IN
    [i \in 1..Len(ls) |-> ls[i].line[6]]

C23_Position(n, content) == CHOOSE i \in 1..Len(C23_SentBy(n)) : C23_SentBy(n)[i] = content

C23_FifoPerConnection ==
    \A n \in {"b1", "c1"} :
        LET shown == C23_ShownOf(n) IN
        /\ \A i \in 1..Len(shown) : Contains(C23_SentBy(n), shown[i])
        /\ \A i, j \in 1..Len(shown) :
              i < j => C23_Position(n, shown[i]) < C23_Position(n, shown[j])

\* all of c1 has been displayed in its order, the message of b1 between two
\* of them
C23_Witness ==
    /\ Len(display["a1"]) = 4
    /\ C23_ShownOf("c1") = <<"one", "two", "three">>
    /\ display["a1"][2].line[6] = "zero"

\* C31: leave_channel(p, c) removes only p from only channel c: the Registry,
\* every other channel and the other members of c stay as they are; when c
\* does not exist or p is no member of c it answers success and changes
\* nothing.
C31_Others(ch, c) == SelectSeq(ch, LAMBDA e : e.name # c)

C31_Without(l, p) == SelectSeq(l, LAMBDA q : q # p)

C31_LeaveStep ==
    \A w \in Workers :
        (pc[w] \in {"recv", "leave_gc"} /\ pc'[w] # pc[w]
            /\ req'[w].method = "leave_channel" /\ MemberValid(req'[w]))
        => LET p == req'[w].peer_id
               c == req'[w].channel IN
           /\ peers' = peers
           /\ C31_Others(channels', c) = C31_Others(channels, c)
           /\ ChanGet(channels', c) = C31_Without(ChanGet(channels, c), p)
           /\ (pc[w] = "recv" /\ ~IsMember(channels, c, p))
                 => channels' = channels /\ pc'[w] = "send" /\ resp'[w].status = "success"
           /\ pc'[w] = "send" => resp'[w].status = "success"

C31_LeaveRemovesOnlyOne == [][C31_LeaveStep]_vars

\* p has joined a channel that had a member, and its leave has been served:
\* the channel is there without p
C31_Witness ==
    \E w1, w2 \in Workers :
        /\ pc[w1] = "send" /\ req[w1].method = "join_channel" /\ resp[w1].status = "success"
        /\ pc[w2] = "send" /\ req[w2].method = "leave_channel" /\ resp[w2].status = "success"
        /\ req[w1].peer_id = req[w2].peer_id /\ req[w1].channel = req[w2].channel
        /\ ChanHas(channels, req[w2].channel)
        /\ ~Contains(ChanGet(channels, req[w2].channel), req[w2].peer_id)

\* C32: logout(p) leaves the Registry record and the channel memberships of
\* every other peer as they are, and deletes no channel but those whose
\* only member was p.
C32_LogoutStep ==
    \A w \in Workers :
        ((pc[w] = "logout_loop" \/ pc'[w] = "logout_loop") /\ req'[w].method = "logout")
        => LET p == req'[w].peer_id IN
           /\ DOMAIN peers' \ {p} = DOMAIN peers \ {p}
           /\ \A q \in DOMAIN peers' \ {p} : peers'[q] = peers[q]
           /\ \A c \in ChannelNames :
                 /\ C31_Without(ChanGet(channels', c), p) = C31_Without(ChanGet(channels, c), p)
                 /\ (ChanHas(channels, c) /\ ~ChanHas(channels', c))
                       => ChanGet(channels, c) = <<p>>
                 /\ ChanHas(channels', c) => ChanHas(channels, c)

C32_LogoutSparesOthers == [][C32_LogoutStep]_vars

\* the loop of a logout is over: a channel that held p and another peer
\* before the logout holds the other peer only
C32_Witness ==
    \E w \in Workers, c \in ChannelNames :
        /\ pc[w] = "logout_loop" /\ keys[w] = <<>>
        /\ Contains(ChanGet(committed.channels, c), req[w].peer_id)
        /\ Len(ChanGet(committed.channels, c)) = 2
        /\ Len(ChanGet(channels, c)) = 1
        /\ ~Contains(ChanGet(channels, c), req[w].peer_id)

\* C33: register changes the Registry record of its peer_id and nothing
\* else: the ChannelIndex and the records of all other peers stay as they
\* are, so memberships survive a new register and a register after a logout
\* brings none back.
C33_RegisterStep ==
    \A w \in Workers :
        (pc[w] = "recv" /\ pc'[w] # "recv" /\ req'[w].method = "register")
        => LET p == req'[w].peer_id IN
           /\ channels' = channels
           /\ DOMAIN peers' \ {p} = DOMAIN peers \ {p}
           /\ \A q \in DOMAIN peers' \ {p} : peers'[q] = peers[q]
           /\ resp'[w].status = "error" => peers' = peers

C33_RegisterTouchesOneRecord == [][C33_RegisterStep]_vars

\* a register of a member of a channel has been served while another peer
\* has a record: the member is still a member
C33_Witness ==
    \E w \in Workers, c \in ChannelNames :
        /\ pc[w] = "send" /\ req[w].method = "register" /\ resp[w].status = "success"
        /\ IsMember(channels, c, req[w].peer_id)
        /\ DOMAIN peers \ {req[w].peer_id} # {}

\* C36: get_channels(p) answers success with exactly the channels whose
\* member list holds p, each once, and with their number as count; for a p
\* that is in no channel or has no record the list is empty and the status
\* is success; the Registry and the ChannelIndex are not changed.
C36_Listed(w) == {resp'[w].channels[i] : i \in 1..Len(resp'[w].channels)}

C36_GetChannelsStep ==
    \A w \in Workers :
        (pc[w] = "recv" /\ pc'[w] # "recv" /\ req'[w].method = "get_channels"
            /\ PeerValid(req'[w]))
        => /\ pc'[w] = "send"
           /\ resp'[w].status = "success"
           /\ C36_Listed(w) = {c \in ChannelNames : IsMember(channels, c, req'[w].peer_id)}
           /\ Cardinality(C36_Listed(w)) = Len(resp'[w].channels)
           /\ resp'[w].count = Len(resp'[w].channels)
           /\ peers' = peers /\ channels' = channels

C36_GetChannels == [][C36_GetChannelsStep]_vars

\* two answers are on their way: the one channel of a member, and the empty
\* list for a peer_id that has no record and is in no channel
C36_Witness ==
    \E w1, w2 \in Workers :
        /\ pc[w1] = "send" /\ req[w1].method = "get_channels"
        /\ pc[w2] = "send" /\ req[w2].method = "get_channels"
        /\ resp[w1].status = "success" /\ resp[w1].count = 1
        /\ IsMember(channels, resp[w1].channels[1], req[w1].peer_id)
        /\ resp[w2].status = "success" /\ resp[w2].count = 0 /\ resp[w2].channels = <<>>
        /\ req[w2].peer_id \notin DOMAIN peers
        /\ channels # <<>>

\* C34: on an established connection of a running peer, a received payload
\* that is no chat message (another type, a second handshake, bytes that are
\* no JSON, JSON that is no object) is ignored: the step of the listener
\* that takes it displays nothing, leaves the Connection Table as it is and
\* leaves the listener in its loop.
C34_Takes(s, side) ==
    /\ s \in Socks /\ Mine(socks[s], side) = "listen"
    /\ running[Owner(socks[s], side)]
    /\ Inbox(socks[s], side) # <<>>
    /\ Head(Inbox(socks[s], side)).type # "chat"
    /\ \/ Inbox(socks'[s], side) = Tail(Inbox(socks[s], side))
       \/ Mine(socks'[s], side) # "listen"

C34_Step ==
    \A s \in 1..MaxSock, side \in Sides :
        C34_Takes(s, side)
        => LET n == Owner(socks[s], side) IN
           /\ display'[n] = display[n]
           /\ connections'[n] = connections[n]
           /\ Mine(socks'[s], side) = "listen"

C34_NonChatIgnored == [][C34_Step]_vars

\* C35: on every connection a PeerClient opens, the first thing written is
\* its handshake, written when the connection is made; everything either
\* side writes afterwards is a chat message, so the connector sends one
\* handshake and the acceptor none.
C35_Added(old, new) ==
    Len(new) > Len(old) => new = Append(old, new[Len(new)]) /\ new[Len(new)].type = "chat"

C35_Step ==
    \A s \in 1..MaxSock :
        /\ (s \in 1..Len(socks') /\ s \notin Socks /\ socks'[s].from \in Nodes)
              => /\ socks'[s].toB = <<Handshake(socks'[s].from)>>
                 /\ socks'[s].toA = <<>>
        /\ (s \in Socks /\ socks[s].from \in Nodes)
              => /\ C35_Added(socks[s].toB, socks'[s].toB)
                 /\ C35_Added(socks[s].toA, socks'[s].toA)

C35_HandshakeFirstAndOnce == [][C35_Step]_vars

\* a connector has written a chat message behind its handshake, which the
\* acceptor has yet to read
C35_Witness ==
    \E s \in Socks :
        /\ socks[s].from \in Nodes /\ socks[s].b = "pending"
        /\ Len(socks[s].toB) = 2
        /\ socks[s].toB[1].type = "handshake" /\ socks[s].toB[2].type = "chat"

\* C37: as long as a peer has not called stop(), and its peer_id is used by
\* no other client, every channel of its local list has its peer_id in the
\* ChannelIndex of the Tracker.
C37_LocalListRecorded ==
    \A n \in Nodes :
        (Alive(n) /\ running[n])
            => \A i \in 1..Len(joined[n]) : IsMember(channels, joined[n][i], n)

\* a peer is in two channels, a join of another peer has failed
C37_Witness ==
    \E n, o \in Nodes :
        /\ n # o /\ Alive(n) /\ Len(joined[n]) = 2
        /\ main[o].result.status = "error" /\ joined[o] = <<>>

\* C38: in every state of a PeerClient current_channel is None or a channel
\* of the local list, and the local list names no channel twice, whatever
\* joins have succeeded and failed.
C38_LocalListSound ==
    \A n \in Nodes :
        /\ current_channel[n] = None \/ Contains(joined[n], current_channel[n])
        /\ \A i, j \in 1..Len(joined[n]) : joined[n][i] = joined[n][j] => i = j

\* a peer that is in two channels has joined the first of them again, and
\* the join of another peer has failed: the first channel is the current one
C38_Witness ==
    /\ console["a1"] = <<>>
    /\ joined["a1"] = <<"general", "random">>
    /\ current_channel["a1"] = "general"
    /\ main["a1"].pc = "query"
    /\ joined["b1"] = <<>> /\ console["b1"] = <<>>

\* C39: the Tracker operation a call of the web shim causes is the one of the
\* invoked route: whatever the body of the HTTP request holds, the request
\* the Tracker serves carries the method of the route, and the Tracker
\* changes the Registry and the ChannelIndex and answers as it does for the
\* fields of the body under that method.
C39_Served == main["web"].pc = "sent" /\ main'["web"].pc = "answered"

C39_OfRoute == [main["web"].request EXCEPT !.method = main["web"].method]

C39_Step ==
    C39_Served
    => /\ main["web"].request.method = main["web"].method
       /\ \E now \in Times :
            LET o == Handled(peers, channels, C39_OfRoute, now) IN
            /\ peers' = o.peers
            /\ channels' = o.channels
            /\ main'["web"].response = o.response

C39_RouteDecidesOperation == [][C39_Step]_vars

\* C40: send_to_tracker sends the Tracker the fields of data under the
\* method it was called with; what it returns is the response of the
\* Tracker, every field as the Tracker wrote it, or, when the Tracker
\* cannot be reached or does not answer in time, an object of status error.
C40_Document ==
    Req(main["web"].method, main["web"].data.peer_id, None, None, None,
        main["web"].data.channel, "json")

C40_Forwards ==
    main["web"].pc \in {"sent", "answered"} => main["web"].request = C40_Document

C40_Returns ==
    /\ main["web"].pc = "answered" /\ main'["web"].pc = "idle"
        => \/ main'["web"].result = main["web"].response
           \/ main'["web"].result = ErrorResponse(<<"Tracker server timeout">>)
    /\ main["web"].pc = "call" /\ main'["web"].pc = "idle"
        => main'["web"].result.status = "error"

C40_Bridge == [][C40_Forwards /\ C40_Returns]_vars

====
